---- MODULE Spec2Model ----
(***************************************************************************)
(* A model of the SWE-bench evaluation harness core: image identity and    *)
(* naming (image_builder/image_spec.py), the test-spec builder             *)
(* (harness/utils.py, types.py), the unit dispatcher run_threadpool /      *)
(* run_sequential (harness/utils.py), the batch build entry point         *)
(* (image_builder/prepare_images.py), the dataset builder                  *)
(* (build_local_datasets.py), the grading engine, the log parsers and the  *)
(* inference runner (inference/run_custom_api.py).                         *)
(*                                                                         *)
(* Text is modelled as a sequence of atoms.  An atom is one character      *)
(* ("a", "_", " ", the line feed) or an indivisible chunk that stands for  *)
(* a fixed run of characters with no white space at either end and no line *)
(* feed ("amd64", "latest", "1776", "#!/bin/bash", "set -uxo pipefail").   *)
(* No chunk can be spelled with the single characters of the alphabets     *)
(* used, so distinct atom sequences are distinct texts.                    *)
(***************************************************************************)
EXTENDS Integers, Sequences, FiniteSets, TLC

\* ------------------------------------------------------------------ bounds
MaxIdLen == 3
MaxPayloads == 3
MaxWorkers == 2
MaxScriptLen == 3
MaxJsonLen == 3
MaxBatch == 2
MaxRuns == 2
MaxSplits == 2
MaxRows == 2
MaxTests == 2
MaxInstances == 3
MaxStarts == 2
MaxRetries == 3
MaxLogLen == 3

\* ------------------------------------------------------------- state
VARIABLES
  iargs,      \* Optional: the arguments of the constructor call made
  ispec,      \* Optional[ImageSpec]: the object a constructor call returned
  ierr,       \* the ValueError message of a failed constructor call, or ""
  ipeer,      \* Optional[ImageSpec]: a second spec of the same dataset
  inames,     \* the .name of every spec built, read in order; None before
  iplatform,  \* what reading ispec.platform gave; "" before
  ifilesafe   \* Optional[str]: what reading ispec.filesafe_name gave

imageVars == <<iargs, ispec, ierr, ipeer, inames, iplatform, ifilesafe>>

VARIABLES
  rt_pc,       \* where the dispatching thread is
  payloads,    \* the batch handed to run_threadpool
  raises,      \* the payloads for which func raises an exception
  max_workers, \* the configured worker count
  submitted,   \* how many payloads executor.submit has taken
  fstate,      \* per payload: "none", "pending", "running" or "done"
  calls,       \* per payload: how many times func was invoked with it
  completion,  \* the payloads in the order their calls ended
  ac_early,    \* as_completed: futures done at its start and not yet yielded
  ac_finished, \* as_completed: the futures that were done at its start
  ac_queue,    \* as_completed: futures done since, in finishing order
  succeeded,   \* the succeeded list
  failed,      \* the failed list
  pbar         \* the progress bar: total, n (updates), desc (counts shown)

poolVars == <<rt_pc, payloads, raises, max_workers, submitted, fstate, calls,
              completion, ac_early, ac_finished, ac_queue, succeeded,
              failed, pbar>>

VARIABLES
  ts_instance, \* Optional: the instance make_test_spec was called with
  ts_result,   \* Optional: what that call did, Returned(...) or Raised(...)
  ts_source,   \* Optional: the script text a TestSpec was built from
  test_spec,   \* Optional[TestSpec]: the TestSpec object in hand
  ts_script,   \* Optional[str]: what reading test_spec.eval_script gave
  ts_reparsed  \* Optional: parse_eval_script of that text

testSpecVars == <<ts_instance, ts_result, ts_source, test_spec, ts_script,
                  ts_reparsed>>

VARIABLES
  engine_images, \* the names of the images present in the container engine
  pm_pc,         \* main: "idle", "building" or "exited"
  pm_run,        \* how many times main was started
  pm_args,       \* Optional: dataset, namespace, force_rebuild, dry_run
  pm_specs,      \* image_specs as get_image_specs_from_dataset returned them
  pm_existing,   \* Optional: what list_images returned in this run
  pm_lists,      \* how many times list_images was called in this run
  pm_to_build,   \* image_specs after filter_image_specs
  pm_successful, \* the specs whose build succeeded, as they completed
  pm_failed,     \* the specs whose build failed, as they completed
  pm_done,       \* the positions of pm_to_build whose build has ended
  pm_exit,       \* Optional: how main ended, [ret |-> ...] or [exc |-> ...]
  pm_prev        \* Optional: a summary of the previous run, once it ended

buildVars == <<engine_images, pm_pc, pm_run, pm_args, pm_specs, pm_existing,
               pm_lists, pm_to_build, pm_successful, pm_failed, pm_done,
               pm_exit, pm_prev>>

VARIABLES
  vd_call,    \* Optional: the arguments of the validate_no_missing call made
  vd_result,  \* Optional: the error it raised, or NoError
  vd_example  \* Optional: the record as it is after the call

validateVars == <<vd_call, vd_result, vd_example>>

VARIABLES
  pd_pc,      \* process_dataset: where it is
  pd_args,    \* Optional: the visiting order of all_required, splits, data
  pd_ds,      \* ds_dict: the selected splits, each a name and its rows
  pd_split,   \* the position of the split the loop is at
  pd_row,     \* how many rows of that split passed validate_no_missing
  pd_visited, \* the <<split, row>> on which validate_no_missing was called
  pd_saved,   \* the positions of the splits written to parquet
  pd_exit     \* Optional: the error that ended the call, or NoError

datasetVars == <<pd_pc, pd_args, pd_ds, pd_split, pd_row, pd_visited,
                 pd_saved, pd_exit>>

VARIABLES
  gr_call,   \* Optional: the parsed log and the TestSpec handed to grade
  gr_report  \* Optional: the GradingReport it returned

gradeVars == <<gr_call, gr_report>>

VARIABLES
  inf_cfg,    \* Optional: the sorted dataset and num_shards of the campaign
  inf_files,  \* per process: its output file, the instance id of every line
  inf_proc,   \* per process: pc, test_dataset, existing_ids, pos, tried, last, starts
  inf_sent,   \* the <<process, instance>> for which a request went out
  inf_ok      \* the <<process, instance>> whose call gave a response text

inferenceVars == <<inf_cfg, inf_files, inf_proc, inf_sent, inf_ok>>

VARIABLES
  api_pc,           \* call_api: idle, attempt, sleep or ended
  api_max_retries,  \* Optional: the max_retries the caller was built with
  api_attempts,     \* how each POST attempt made so far ended, in order
  api_result        \* Optional: what call_api gave, [ret |-> ...] or [exc |-> ...]

apiVars == <<api_pc, api_max_retries, api_attempts, api_result>>

VARIABLES
  lp_call,    \* Optional: the strategy and the input of the parser call made
  lp_result   \* Optional: the mapping the parser returned

parsersVars == <<lp_call, lp_result>>

VARIABLES
  an_call,    \* Optional: the process_dataset call and the repo of the record
  an_result   \* Optional: what add_metadata set on the record, or [exc |-> ...]

annotateVars == <<an_call, an_result>>

VARIABLES
  ref_instance_id,  \* Optional: the instance identifier
  ref_recorded,     \* Optional: the image reference dataset building recorded for it
  ref_built         \* Optional: the name under which the orchestrator builds its image

imageRefVars == <<ref_instance_id, ref_recorded, ref_built>>

notImageVars == <<poolVars, testSpecVars, buildVars, validateVars,
  datasetVars, gradeVars, inferenceVars, apiVars, parsersVars, annotateVars,
  imageRefVars>>
notPoolVars == <<imageVars, testSpecVars, buildVars, validateVars,
  datasetVars, gradeVars, inferenceVars, apiVars, parsersVars, annotateVars,
  imageRefVars>>
notTestSpecVars == <<imageVars, poolVars, buildVars, validateVars,
  datasetVars, gradeVars, inferenceVars, apiVars, parsersVars, annotateVars,
  imageRefVars>>
notBuildVars == <<imageVars, poolVars, testSpecVars, validateVars,
  datasetVars, gradeVars, inferenceVars, apiVars, parsersVars, annotateVars,
  imageRefVars>>
notValidateVars == <<imageVars, poolVars, testSpecVars, buildVars,
  datasetVars, gradeVars, inferenceVars, apiVars, parsersVars, annotateVars,
  imageRefVars>>
notDatasetVars == <<imageVars, poolVars, testSpecVars, buildVars,
  validateVars, gradeVars, inferenceVars, apiVars, parsersVars, annotateVars,
  imageRefVars>>
notGradeVars == <<imageVars, poolVars, testSpecVars, buildVars, validateVars,
  datasetVars, inferenceVars, apiVars, parsersVars, annotateVars,
  imageRefVars>>
notInferenceVars == <<imageVars, poolVars, testSpecVars, buildVars,
  validateVars, datasetVars, gradeVars, apiVars, parsersVars, annotateVars,
  imageRefVars>>
notApiVars == <<imageVars, poolVars, testSpecVars, buildVars, validateVars,
  datasetVars, gradeVars, inferenceVars, parsersVars, annotateVars,
  imageRefVars>>
notParsersVars == <<imageVars, poolVars, testSpecVars, buildVars,
  validateVars, datasetVars, gradeVars, inferenceVars, apiVars, annotateVars,
  imageRefVars>>
notAnnotateVars == <<imageVars, poolVars, testSpecVars, buildVars,
  validateVars, datasetVars, gradeVars, inferenceVars, apiVars, parsersVars,
  imageRefVars>>
notImageRefVars == <<imageVars, poolVars, testSpecVars, buildVars,
  validateVars, datasetVars, gradeVars, inferenceVars, apiVars, parsersVars,
  annotateVars>>

\* ---------------------------------------------------------- Python values
\* Optional[T]: None is the empty tuple, a present value v is <<v>>.
None == <<>>
Some(v) == <<v>>

\* All sequences over S of length at most n.
RECURSIVE SeqsOfLen(_, _)
SeqsOfLen(S, k) ==
  IF k = 0 THEN {<<>>}
  ELSE {<<c>> \o t : c \in S, t \in SeqsOfLen(S, k - 1)}

SeqsUpTo(S, n) == UNION {SeqsOfLen(S, k) : k \in 0..n}

\* ------------------------------------------------------------------ str
IsUpper(c) == c \in {"A", "B"}

LowerChar(c) == CASE c = "A" -> "a" [] c = "B" -> "b" [] OTHER -> c

\* str.lower()
str_lower(s) == [i \in 1..Len(s) |-> LowerChar(s[i])]

\* The marker "_1776_" that replaces a double underscore.
Marker == <<"_", "1776", "_">>

\* str.replace("__", "_1776_"): leftmost non-overlapping occurrences.
RECURSIVE replace_dunder(_)
replace_dunder(s) ==
  IF Len(s) < 2 THEN s
  ELSE IF s[1] = "_" /\ s[2] = "_"
       THEN Marker \o replace_dunder(SubSeq(s, 3, Len(s)))
       ELSE <<s[1]>> \o replace_dunder(Tail(s))

\* str.replace(":", "__")
RECURSIVE replace_colon(_)
replace_colon(s) ==
  IF s = <<>> THEN s
  ELSE (IF s[1] = ":" THEN <<"_", "_">> ELSE <<s[1]>>) \o replace_colon(Tail(s))

\* sub in s
Contains(s, sub) ==
  \E i \in 1..(Len(s) - Len(sub) + 1) : SubSeq(s, i, i + Len(sub) - 1) = sub

HasUpper(s) == \E i \in 1..Len(s) : IsUpper(s[i])

HasDunder(s) == Contains(s, <<"_", "_">>)

HasRun3(s) == Contains(s, <<"_", "_", "_">>)

\* ------------------------------------------------------------ ImageSpec
IdChars == {"a", "B", "_", "1776"}
InstanceIds == SeqsUpTo(IdChars, MaxIdLen)
Dockerfiles == {<<>>, <<"FROM">>}
Namespaces == {None, Some(<<>>), Some(<<"B">>)}
Tags == {<<"latest">>, <<"B", "_", "_">>}
Archs == {"amd64", "arm64", "x86_64", "riscv"}
DefaultArch == "amd64"

\* A validation that forgets the namespace check.
ImageSpec_post_init_NoNamespaceCheck(self) ==
  IF self.instance_id = <<>> THEN "instance_id cannot be empty"
  ELSE IF self.dockerfile = <<>> THEN "dockerfile cannot be empty"
  ELSE IF self.arch \notin {"amd64", "arm64"} THEN "Invalid architecture"
  ELSE ""

\* __post_init__: the message of the ValueError raised, or "" when accepted.
ImageSpec_post_init(self) ==
  IF self.instance_id = <<>> THEN "instance_id cannot be empty"
  ELSE IF self.dockerfile = <<>> THEN "dockerfile cannot be empty"
  ELSE IF self.arch \notin {"amd64", "arm64"} THEN "Invalid architecture"
  ELSE IF self.namespace # None /\ self.namespace[1] = <<>>
       THEN "namespace cannot be empty string if provided"
  ELSE ""

is_remote_image(self) == self.namespace # None

\* ImageSpec.name
ImageSpec_name(self) ==
  LET key == <<self.arch, ".">> \o self.instance_id \o <<":">> \o self.tag
  IN  str_lower(IF is_remote_image(self)
                THEN replace_dunder(self.namespace[1] \o <<"/">> \o key)
                ELSE key)

\* ImageSpec.filesafe_name
ImageSpec_filesafe_name(self) == replace_colon(ImageSpec_name(self))

\* A platform that does not know arm64.
ImageSpec_platform_NoArm(self) ==
  IF self.arch = "amd64" THEN "linux/amd64"
  ELSE IF self.arch = "x86_64" THEN "linux/amd64"
  ELSE "ValueError"

\* ImageSpec.platform: the platform string, or "ValueError" when it raises.
ImageSpec_platform(self) ==
  IF self.arch = "amd64" THEN "linux/amd64"
  ELSE IF self.arch = "x86_64" THEN "linux/amd64"
  ELSE IF self.arch = "arm64" THEN "linux/arm64/v8"
  ELSE "ValueError"

InitImage ==
  /\ iargs = None
  /\ ispec = None
  /\ ierr = ""
  /\ ipeer = None
  /\ inames = None
  /\ iplatform = ""
  /\ ifilesafe = None

\* ImageSpec(instance_id, dockerfile, namespace, tag, arch): the dataclass
\* __init__ stores the fields, then __post_init__ validates them.
NewImageSpec ==
  /\ iargs = None
  /\ \E id \in InstanceIds, df \in Dockerfiles, ns \in Namespaces,
        tag \in Tags, arch \in Archs :
       LET self == [instance_id |-> id, dockerfile |-> df, namespace |-> ns,
                    tag |-> tag, arch |-> arch]
           msg == ImageSpec_post_init(self)
       IN  /\ iargs' = Some(self)
           /\ ispec' = IF msg = "" THEN Some(self) ELSE None
           /\ ierr' = msg
  /\ UNCHANGED <<ipeer, inames, iplatform, ifilesafe>>
  /\ UNCHANGED notImageVars

\* make_image_spec for a second instance of the same dataset: the same
\* dockerfile source, namespace and tag, the default architecture.
MakePeerSpec ==
  /\ ispec # None /\ ipeer = None
  /\ inames = None /\ iplatform = "" /\ ifilesafe = None
  /\ ispec[1].arch = DefaultArch
  /\ \E id \in InstanceIds :
       LET self == [instance_id |-> id, dockerfile |-> ispec[1].dockerfile,
                    namespace |-> ispec[1].namespace, tag |-> ispec[1].tag,
                    arch |-> DefaultArch]
       IN  /\ ImageSpec_post_init(self) = ""
           /\ ipeer' = Some(self)
  /\ UNCHANGED <<iargs, ispec, ierr, inames, iplatform, ifilesafe>>
  /\ UNCHANGED notImageVars

\* spec.name for every spec built so far.
ReadName ==
  /\ ispec # None /\ inames = None
  /\ inames' = Some(IF ipeer = None
                    THEN <<ImageSpec_name(ispec[1])>>
                    ELSE <<ImageSpec_name(ispec[1]), ImageSpec_name(ipeer[1])>>)
  /\ UNCHANGED <<iargs, ispec, ierr, ipeer, iplatform, ifilesafe>>
  /\ UNCHANGED notImageVars

ReadPlatform ==
  /\ ispec # None /\ iplatform = "" /\ ipeer = None
  /\ iplatform' = ImageSpec_platform(ispec[1])
  /\ UNCHANGED <<iargs, ispec, ierr, ipeer, inames, ifilesafe>>
  /\ UNCHANGED notImageVars

ReadFilesafeName ==
  /\ ispec # None /\ ifilesafe = None /\ ipeer = None
  /\ ifilesafe' = Some(ImageSpec_filesafe_name(ispec[1]))
  /\ UNCHANGED <<iargs, ispec, ierr, ipeer, inames, iplatform>>
  /\ UNCHANGED notImageVars

NextImage ==
  \/ NewImageSpec
  \/ MakePeerSpec
  \/ ReadName
  \/ ReadPlatform
  \/ ReadFilesafeName

\* ------------------------------------- run_threadpool / run_sequential
\* A payload is named by its position in the batch.  func raises for the
\* payloads of `raises` and returns for the others.
WorkerCounts == (0 - 1)..MaxWorkers

Running == {i \in DOMAIN fstate : fstate[i] = "running"}

\* An accumulation with no except branch: every unit counts as succeeded.
Accumulate_NoExcept(lists, payload, raised) ==
  [lists EXCEPT !.succeeded = Append(@, payload)]

\* An accumulation that puts the newest payload first.
Accumulate_Prepend(lists, payload, raised) ==
  IF raised
  THEN [lists EXCEPT !.failed = <<payload>> \o @]
  ELSE [lists EXCEPT !.succeeded = <<payload>> \o @]

\* The try/except around one unit's result: the payload goes to succeeded
\* when the call returned and to failed when it raised.
Accumulate(lists, payload, raised) ==
  IF raised
  THEN [lists EXCEPT !.failed = Append(@, payload)]
  ELSE [lists EXCEPT !.succeeded = Append(@, payload)]

\* A progress bar that counts the update and keeps the old description.
PbarUpdate_NoDesc(bar, lists) == [bar EXCEPT !.n = @ + 1]

\* pbar.update(1); pbar.set_description(f"{len(succeeded)} ran successfully,
\* {len(failed)} failed")
PbarUpdate(bar, lists) ==
  [bar EXCEPT !.n = @ + 1,
              !.desc = <<Len(lists.succeeded), Len(lists.failed)>>]

InitPool ==
  /\ rt_pc = "idle"
  /\ payloads = <<>>
  /\ raises = {}
  /\ max_workers = 0
  /\ submitted = 0
  /\ fstate = <<>>
  /\ calls = <<>>
  /\ completion = <<>>
  /\ ac_early = {}
  /\ ac_finished = {}
  /\ ac_queue = <<>>
  /\ succeeded = <<>>
  /\ failed = <<>>
  /\ pbar = [total |-> 0, n |-> 0, desc |-> <<0, 0>>]

\* run_threadpool(func, payloads, max_workers) is entered: a non-positive
\* worker count hands the batch to run_sequential, otherwise the lists, the
\* progress bar and the executor are created.
CallRunThreadpool ==
  /\ rt_pc = "idle"
  /\ \E n \in 0..MaxPayloads, mw \in WorkerCounts :
       \E r \in SUBSET (1..n) :
         /\ payloads' = [i \in 1..n |-> i]
         /\ raises' = r
         /\ max_workers' = mw
         /\ fstate' = [i \in 1..n |-> "none"]
         /\ calls' = [i \in 1..n |-> 0]
         /\ pbar' = [total |-> n, n |-> 0, desc |-> <<0, 0>>]
         /\ rt_pc' = IF mw <= 0 THEN "seq_loop" ELSE "submit"
  /\ UNCHANGED <<submitted, completion, ac_early, ac_finished, ac_queue,
                 succeeded, failed>>
  /\ UNCHANGED notPoolVars

\* futures = {executor.submit(func, *payload): payload for payload in payloads}
\* one submit of the comprehension.
Submit ==
  /\ rt_pc = "submit"
  /\ submitted < Len(payloads)
  /\ submitted' = submitted + 1
  /\ fstate' = [fstate EXCEPT ![submitted + 1] = "pending"]
  /\ UNCHANGED <<rt_pc, payloads, raises, max_workers, calls, completion,
                 ac_early, ac_finished, ac_queue, succeeded,
                 failed, pbar>>
  /\ UNCHANGED notPoolVars

\* A pool that starts a thread for every queued work item.
WorkerStart_Unbounded ==
  /\ rt_pc \in {"submit", "loop"}
  /\ \E i \in DOMAIN fstate :
       /\ fstate[i] = "pending"
       /\ fstate' = [fstate EXCEPT ![i] = "running"]
       /\ calls' = [calls EXCEPT ![i] = @ + 1]
  /\ UNCHANGED <<rt_pc, payloads, raises, max_workers, submitted, completion,
                 ac_early, ac_finished, ac_queue, succeeded, failed, pbar>>
  /\ UNCHANGED notPoolVars

\* A worker thread of the pool takes the oldest queued work item and calls
\* func with its payload; the pool never runs more than max_workers threads.
WorkerStart ==
  /\ rt_pc \in {"submit", "loop"}
  /\ Cardinality(Running) < max_workers
  /\ \E i \in DOMAIN fstate :
       /\ fstate[i] = "pending"
       /\ \A j \in DOMAIN fstate : fstate[j] = "pending" => i <= j
       /\ fstate' = [fstate EXCEPT ![i] = "running"]
       /\ calls' = [calls EXCEPT ![i] = @ + 1]
  /\ UNCHANGED <<rt_pc, payloads, raises, max_workers, submitted, completion,
                 ac_early, ac_finished, ac_queue, succeeded,
                 failed, pbar>>
  /\ UNCHANGED notPoolVars

\* A call of func ends (it returns or raises); the future is done.  Once
\* as_completed waits, it is told of the future in finishing order.
WorkerFinish ==
  /\ rt_pc \in {"submit", "loop"}
  /\ \E i \in Running :
       /\ fstate' = [fstate EXCEPT ![i] = "done"]
       /\ completion' = Append(completion, i)
       /\ ac_queue' = IF rt_pc = "loop" THEN Append(ac_queue, i) ELSE ac_queue
  /\ UNCHANGED <<rt_pc, payloads, raises, max_workers, submitted, calls,
                 ac_early, ac_finished, succeeded, failed, pbar>>
  /\ UNCHANGED notPoolVars

\* An as_completed that forgets the futures already done when it is called.
AsCompleted_DropsEarly ==
  /\ rt_pc = "submit"
  /\ submitted = Len(payloads)
  /\ ac_early' = {}
  /\ ac_finished' = {}
  /\ rt_pc' = "loop"
  /\ UNCHANGED <<payloads, raises, max_workers, submitted, fstate, calls,
                 completion, ac_queue, succeeded, failed, pbar>>
  /\ UNCHANGED notPoolVars

\* for future in as_completed(futures): the iterator is created once every
\* payload is submitted; it notes the futures that are done already.
AsCompleted ==
  /\ rt_pc = "submit"
  /\ submitted = Len(payloads)
  /\ ac_early' = {i \in DOMAIN fstate : fstate[i] = "done"}
  /\ ac_finished' = ac_early'
  /\ rt_pc' = "loop"
  /\ UNCHANGED <<payloads, raises, max_workers, submitted, fstate, calls,
                 completion, ac_queue, succeeded, failed, pbar>>
  /\ UNCHANGED notPoolVars

\* One round of the loop body for future i: future.result(), the append to
\* succeeded or failed, the progress bar update.
LoopBody(i) ==
  LET lists == Accumulate([succeeded |-> succeeded, failed |-> failed],
                          payloads[i], i \in raises)
  IN  /\ succeeded' = lists.succeeded
      /\ failed' = lists.failed
      /\ pbar' = PbarUpdate(pbar, lists)

\* as_completed yields a future: first those done before it was called, in
\* no particular order, then the others as they finish.
Iterate ==
  /\ rt_pc = "loop"
  /\ \/ \E i \in ac_early :
          /\ LoopBody(i)
          /\ ac_early' = ac_early \ {i}
          /\ UNCHANGED ac_queue
     \/ /\ ac_early = {}
        /\ ac_queue # <<>>
        /\ LoopBody(Head(ac_queue))
        /\ ac_queue' = Tail(ac_queue)
        /\ UNCHANGED ac_early
  /\ UNCHANGED <<rt_pc, payloads, raises, max_workers, submitted, fstate,
                 calls, completion, ac_finished>>
  /\ UNCHANGED notPoolVars

\* as_completed is exhausted when every future was yielded; the executor's
\* context exit waits for the workers; return succeeded, failed.
ReturnPooled ==
  /\ rt_pc = "loop"
  /\ Len(succeeded) + Len(failed) = Len(payloads)
  /\ \A i \in DOMAIN fstate : fstate[i] = "done"
  /\ rt_pc' = "returned"
  /\ UNCHANGED <<payloads, raises, max_workers, submitted, fstate, calls,
                 completion, ac_early, ac_finished, ac_queue, succeeded,
                 failed, pbar>>
  /\ UNCHANGED notPoolVars

\* A loop that calls func for some args without waiting for the call before.
SeqCall_NoWait ==
  /\ rt_pc = "seq_loop"
  /\ \E i \in DOMAIN fstate :
       /\ fstate[i] = "none"
       /\ fstate' = [fstate EXCEPT ![i] = "running"]
       /\ calls' = [calls EXCEPT ![i] = @ + 1]
  /\ UNCHANGED <<rt_pc, payloads, raises, max_workers, submitted, completion,
                 ac_early, ac_finished, ac_queue, succeeded, failed, pbar>>
  /\ UNCHANGED notPoolVars

\* run_sequential: func(*args) is called for the next args of args_list.
SeqCall ==
  /\ rt_pc = "seq_loop"
  /\ Running = {}
  /\ \E i \in DOMAIN fstate :
       /\ fstate[i] = "none"
       /\ \A j \in DOMAIN fstate : fstate[j] = "none" => i <= j
       /\ fstate' = [fstate EXCEPT ![i] = "running"]
       /\ calls' = [calls EXCEPT ![i] = @ + 1]
  /\ UNCHANGED <<rt_pc, payloads, raises, max_workers, submitted, completion,
                 ac_early, ac_finished, ac_queue, succeeded,
                 failed, pbar>>
  /\ UNCHANGED notPoolVars

\* run_sequential: the call ended; the append and the progress bar update.
SeqDone ==
  /\ rt_pc = "seq_loop"
  /\ \E i \in Running :
       /\ fstate' = [fstate EXCEPT ![i] = "done"]
       /\ completion' = Append(completion, i)
       /\ LoopBody(i)
  /\ UNCHANGED <<rt_pc, payloads, raises, max_workers, submitted, calls,
                 ac_early, ac_finished, ac_queue>>
  /\ UNCHANGED notPoolVars

\* run_sequential: the for loop is over; pbar.close(); return.
ReturnSequential ==
  /\ rt_pc = "seq_loop"
  /\ \A i \in DOMAIN fstate : fstate[i] = "done"
  /\ rt_pc' = "returned"
  /\ UNCHANGED <<payloads, raises, max_workers, submitted, fstate, calls,
                 completion, ac_early, ac_finished, ac_queue, succeeded,
                 failed, pbar>>
  /\ UNCHANGED notPoolVars

NextPool ==
  \/ CallRunThreadpool
  \/ Submit
  \/ WorkerStart
  \/ WorkerFinish
  \/ AsCompleted
  \/ Iterate
  \/ ReturnPooled
  \/ SeqCall
  \/ SeqDone
  \/ ReturnSequential

\* ------------------------------------------------ TestSpec, make_test_spec
\* A Python value carries its type: [str |-> text], [list |-> <<values>>]
\* or [none |-> TRUE].
Str(x) == [str |-> x]
List(x) == [list |-> x]
NoneValue == [none |-> TRUE]
IsStr(x) == DOMAIN x = {"str"}
IsList(x) == DOMAIN x = {"list"}

LF == "\n"
Shebang == <<"#!/bin/bash">>
StrictMode == <<"set -uxo pipefail">>
IsSpace(c) == c \in {" ", LF}

\* str.lstrip(), str.rstrip(), str.strip()
RECURSIVE str_lstrip(_)
str_lstrip(s) ==
  IF s # <<>> /\ IsSpace(s[1]) THEN str_lstrip(Tail(s)) ELSE s

RECURSIVE str_rstrip(_)
str_rstrip(s) ==
  IF s # <<>> /\ IsSpace(s[Len(s)])
  THEN str_rstrip(SubSeq(s, 1, Len(s) - 1))
  ELSE s

str_strip(s) == str_rstrip(str_lstrip(s))

\* str.split("\n"): the pieces between line feeds, at least one piece.
RECURSIVE split_lines(_, _)
split_lines(s, cur) ==
  IF s = <<>> THEN <<cur>>
  ELSE IF s[1] = LF THEN <<cur>> \o split_lines(Tail(s), <<>>)
  ELSE split_lines(Tail(s), Append(cur, s[1]))

str_split(s) == split_lines(s, <<>>)

\* "\n".join(lines)
RECURSIVE str_join(_)
str_join(lines) ==
  IF lines = <<>> THEN <<>>
  ELSE IF Len(lines) = 1 THEN lines[1]
  ELSE lines[1] \o <<LF>> \o str_join(Tail(lines))

IsPreamble(line) == line = Shebang \/ line = StrictMode

\* parse_eval_script(eval_script): the list of Python str values kept.
parse_eval_script(eval_script) ==
  LET kept == SelectSeq(str_split(str_strip(eval_script)),
                        LAMBDA line : ~IsPreamble(line))
  IN  [i \in 1..Len(kept) |-> Str(kept[i])]

\* json.loads on a text of the tokens [ ] , and quoted names.
JsonNames == {"\"t\""}
\* the string a quoted name decodes to
Unquote(token) == CASE token = "\"t\"" -> <<"t">> [] OTHER -> <<token>>
JsonChars == {"[", "]", ","} \cup JsonNames
JsonFail == [ok |-> FALSE, val |-> NoneValue, next |-> 0]

RECURSIVE JsonValue(_, _)
RECURSIVE JsonElems(_, _, _, _)

\* the value that starts at token i: [ok, val, next]
JsonValue(s, i) ==
  IF i > Len(s) THEN JsonFail
  ELSE IF s[i] \in JsonNames
       THEN [ok |-> TRUE, val |-> Str(Unquote(s[i])), next |-> i + 1]
  ELSE IF s[i] = "[" THEN JsonElems(s, i + 1, <<>>, TRUE)
  ELSE JsonFail

\* the elements of a list from token i, `acc` read so far
JsonElems(s, i, acc, first) ==
  IF i > Len(s) THEN JsonFail
  ELSE IF first /\ s[i] = "]"
       THEN [ok |-> TRUE, val |-> List(acc), next |-> i + 1]
  ELSE LET e == JsonValue(s, i)
       IN  IF ~e.ok \/ e.next > Len(s) THEN JsonFail
           ELSE IF s[e.next] = "]"
                THEN [ok |-> TRUE, val |-> List(Append(acc, e.val)),
                      next |-> e.next + 1]
           ELSE IF s[e.next] = ","
                THEN JsonElems(s, e.next + 1, Append(acc, e.val), FALSE)
           ELSE JsonFail

\* json.loads(text): [ok |-> TRUE, val] or a JSONDecodeError
json_loads(text) ==
  LET r == JsonValue(text, 1)
  IN  IF r.ok /\ r.next = Len(text) + 1
      THEN [ok |-> TRUE, val |-> r.val]
      ELSE [ok |-> FALSE, val |-> NoneValue]

\* The fields the TestSpec dataclass declares.
TestSpecFields == {"instance_id", "image", "eval_script_list", "repo",
                   "version", "FAIL_TO_PASS", "PASS_TO_PASS"}

\* The keys make_test_spec reads from the instance.
InstanceKeys == {"instance_id", "image", "eval_script", "repo", "version",
                 "FAIL_TO_PASS", "PASS_TO_PASS", "log_parser", "eval_type"}

Raised(exc) == [ok |-> FALSE, exc |-> exc, spec |-> None]
Returned(obj) == [ok |-> TRUE, exc |-> "", spec |-> Some(obj)]

\* TestSpec(**kwargs): the generated __init__ takes exactly the declared
\* fields; any other keyword, or a missing one, is a TypeError.
TestSpec_init(kwargs) ==
  IF DOMAIN kwargs = TestSpecFields THEN Returned(kwargs) ELSE Raised("TypeError")

\* make_test_spec(instance)
make_test_spec(instance) ==
  LET has(k) == k \in DOMAIN instance
  IN
  IF ~has("FAIL_TO_PASS") \/ ~has("PASS_TO_PASS") \/ ~has("instance_id")
     \/ ~has("image") \/ ~has("eval_script")
  THEN Raised("KeyError")
  ELSE IF ~IsStr(instance["eval_script"]) THEN Raised("AttributeError")
  ELSE IF ~has("repo") \/ ~has("version") THEN Raised("KeyError")
  ELSE
  LET f2p == instance["FAIL_TO_PASS"]
      p2p == instance["PASS_TO_PASS"]
      f == IF IsStr(f2p) THEN json_loads(f2p.str) ELSE [ok |-> TRUE, val |-> f2p]
      p == IF IsStr(p2p) THEN json_loads(p2p.str) ELSE [ok |-> TRUE, val |-> p2p]
  IN
  IF ~f.ok THEN Raised("JSONDecodeError")
  ELSE IF ~p.ok THEN Raised("JSONDecodeError")
  ELSE IF ~has("log_parser") \/ ~has("eval_type") THEN Raised("KeyError")
  ELSE TestSpec_init(
         [instance_id |-> instance["instance_id"],
          image |-> instance["image"],
          eval_script_list |-> parse_eval_script(instance["eval_script"].str),
          repo |-> instance["repo"],
          version |-> instance["version"],
          FAIL_TO_PASS |-> f.val,
          PASS_TO_PASS |-> p.val,
          log_parser |-> instance["log_parser"],
          eval_type |-> instance["eval_type"]])

\* TestSpec.eval_script, first part: a list nested in eval_script_list is
\* flattened in place (every nested list, once one is found).
RECURSIVE Flatten(_)
Flatten(items) ==
  IF items = <<>> THEN <<>>
  ELSE (IF IsList(items[1]) THEN items[1].list ELSE <<items[1]>>)
       \o Flatten(Tail(items))

eval_script_list_after_read(self) ==
  IF \E i \in 1..Len(self.eval_script_list) : IsList(self.eval_script_list[i])
  THEN Flatten(self.eval_script_list)
  ELSE self.eval_script_list

\* TestSpec.eval_script, second part: the preamble and the lines, joined by
\* line feeds, and a final line feed.
TestSpec_eval_script(self) ==
  LET items == eval_script_list_after_read(self)
      lines == [i \in 1..Len(items) |-> items[i].str]
  IN  str_join(<<Shebang, StrictMode>> \o lines) \o <<LF>>

\* inputs
ScriptChars == {"#!/bin/bash", "set -uxo pipefail", "x", " ", LF}
ScriptTexts == SeqsUpTo(ScriptChars, MaxScriptLen)
JsonTexts == SeqsUpTo(JsonChars, MaxJsonLen)
TestNameLists == {List(<<>>), List(<<Str(<<"t">>)>>)}
F2PValues == {Str(x) : x \in JsonTexts} \cup TestNameLists
P2PValues == {Str(<<"[", "\"t\"", "]">>), Str(<<"[">>)} \cup TestNameLists
NestedScriptLists == {<<Str(<<"x">>), List(<<Str(<<"x">>), Str(<<>>)>>)>>}

BaseInstance(script, f2p, p2p) ==
  [k \in InstanceKeys |->
     CASE k = "eval_script" -> Str(script)
       [] k = "FAIL_TO_PASS" -> f2p
       [] k = "PASS_TO_PASS" -> p2p
       [] OTHER -> Str(<<k>>)]

Restrict(f, keys) == [k \in keys |-> f[k]]

SampleInstance ==
  BaseInstance(<<"x">>, Str(<<"[", "\"t\"", "]">>), List(<<>>))

\* Instances with every key present and no null value, and the sample
\* instance with one key dropped or one value null.
Instances ==
  {BaseInstance(sc, f, p) : sc \in ScriptTexts, f \in F2PValues, p \in P2PValues}
  \cup {Restrict(SampleInstance, InstanceKeys \ {k}) : k \in InstanceKeys}
  \cup {[SampleInstance EXCEPT ![k] = NoneValue] : k \in InstanceKeys}

InitTestSpec ==
  /\ ts_instance = None
  /\ ts_result = None
  /\ ts_source = None
  /\ test_spec = None
  /\ ts_script = None
  /\ ts_reparsed = None

\* make_test_spec(instance) is called.
CallMakeTestSpec ==
  /\ ts_instance = None /\ test_spec = None
  /\ \E instance \in Instances :
       LET r == make_test_spec(instance)
       IN  /\ ts_instance' = Some(instance)
           /\ ts_result' = Some(r)
           /\ test_spec' = r.spec
           /\ ts_source' = IF r.ok THEN Some(instance["eval_script"].str) ELSE None
  /\ UNCHANGED <<ts_script, ts_reparsed>>
  /\ UNCHANGED notTestSpecVars

\* A TestSpec is constructed with the declared fields, its eval_script_list
\* being parse_eval_script of a script text.
NewTestSpec ==
  /\ ts_instance = None /\ test_spec = None
  /\ \E script \in ScriptTexts :
       LET r == TestSpec_init(
                  [instance_id |-> Str(<<"instance_id">>),
                   image |-> Str(<<"image">>),
                   eval_script_list |-> parse_eval_script(script),
                   repo |-> Str(<<"repo">>),
                   version |-> Str(<<"version">>),
                   FAIL_TO_PASS |-> List(<<>>),
                   PASS_TO_PASS |-> List(<<>>)])
       IN  /\ test_spec' = r.spec
           /\ ts_source' = Some(script)
  /\ UNCHANGED <<ts_instance, ts_result, ts_script, ts_reparsed>>
  /\ UNCHANGED notTestSpecVars

\* A TestSpec is constructed whose eval_script_list holds a nested list (the
\* case the eval_script property looks for).
NewTestSpecNested ==
  /\ ts_instance = None /\ test_spec = None
  /\ \E items \in NestedScriptLists :
       LET r == TestSpec_init(
                  [instance_id |-> Str(<<"instance_id">>),
                   image |-> Str(<<"image">>),
                   eval_script_list |-> items,
                   repo |-> Str(<<"repo">>),
                   version |-> Str(<<"version">>),
                   FAIL_TO_PASS |-> List(<<>>),
                   PASS_TO_PASS |-> List(<<>>)])
       IN  test_spec' = r.spec
  /\ UNCHANGED <<ts_instance, ts_result, ts_source, ts_script, ts_reparsed>>
  /\ UNCHANGED notTestSpecVars

\* test_spec.eval_script is read.
ReadEvalScript ==
  /\ test_spec # None /\ ts_script = None
  /\ ts_script' = Some(TestSpec_eval_script(test_spec[1]))
  /\ test_spec' = Some([test_spec[1] EXCEPT !.eval_script_list =
                          eval_script_list_after_read(test_spec[1])])
  /\ UNCHANGED <<ts_instance, ts_result, ts_source, ts_reparsed>>
  /\ UNCHANGED notTestSpecVars

\* parse_eval_script is applied to the materialised script.
ReparseEvalScript ==
  /\ ts_script # None /\ ts_reparsed = None
  /\ ts_reparsed' = Some(parse_eval_script(ts_script[1]))
  /\ UNCHANGED <<ts_instance, ts_result, ts_source, test_spec, ts_script>>
  /\ UNCHANGED notTestSpecVars

NextTestSpec ==
  \/ CallMakeTestSpec
  \/ NewTestSpec
  \/ NewTestSpecNested
  \/ ReadEvalScript
  \/ ReparseEvalScript

\* ------------------------------------------- prepare_images: main
DatasetIds == {<<"a", "_", "_">>, <<"B">>}
Datasets == SeqsUpTo(DatasetIds, MaxBatch)
BuildNamespaces == {None, Some(<<"B">>)}
DefaultTag == <<"latest">>

\* make_image_spec(instance, dockerfile, namespace, tag)
make_image_spec(instance_id, dockerfile, namespace, tag) ==
  [instance_id |-> instance_id, dockerfile |-> dockerfile,
   namespace |-> namespace, tag |-> tag, arch |-> DefaultArch]

\* get_image_specs_from_dataset(dataset, dockerfiles, namespace, tag), for
\* a non-empty dataset of instances
get_image_specs_from_dataset(dataset, namespace, tag) ==
  [i \in 1..Len(dataset) |->
     make_image_spec(dataset[i], <<"FROM">>, namespace, tag)]

\* list_images(client): the names of the images the engine holds.
list_images(engine) == engine

\* A filter that reads force_rebuild the wrong way round.
filter_image_specs_ForceInverted(image_specs, existing_images, force_rebuild) ==
  SelectSeq(image_specs,
            LAMBDA spec : ~force_rebuild
                          \/ ImageSpec_name(spec) \notin existing_images)

\* A filter that keeps the specs whose image exists.
filter_image_specs_KeepsExisting(image_specs, existing_images, force_rebuild) ==
  SelectSeq(image_specs,
            LAMBDA spec : force_rebuild
                          \/ ImageSpec_name(spec) \in existing_images)

\* filter_image_specs, given what list_images returned
filter_image_specs(image_specs, existing_images, force_rebuild) ==
  SelectSeq(image_specs,
            LAMBDA spec : force_rebuild
                          \/ ImageSpec_name(spec) \notin existing_images)

PossibleImages ==
  {ImageSpec_name(make_image_spec(id, <<"FROM">>, ns, DefaultTag)) :
     id \in DatasetIds, ns \in BuildNamespaces}

InitBuild ==
  /\ engine_images = {}
  /\ pm_pc = "idle"
  /\ pm_run = 0
  /\ pm_args = None
  /\ pm_specs = <<>>
  /\ pm_existing = None
  /\ pm_lists = 0
  /\ pm_to_build = <<>>
  /\ pm_successful = <<>>
  /\ pm_failed = <<>>
  /\ pm_done = {}
  /\ pm_exit = None
  /\ pm_prev = None

\* What is kept of a run that ended: its force_rebuild flag, whether it
\* dispatched any build, whether every dispatched build succeeded, and
\* whether every dispatched spec's name is in the engine.
RunSummary ==
  [force_rebuild |-> pm_args[1].force_rebuild,
   dispatched |-> pm_to_build # <<>>,
   all_succeeded |-> "ret" \in DOMAIN pm_exit[1] /\ pm_failed = <<>>,
   present |-> \A i \in 1..Len(pm_to_build) :
                 ImageSpec_name(pm_to_build[i]) \in engine_images]

\* main(...) from its start to the call of build_instance_images: the image
\* specs are made, list_images is called once inside filter_image_specs, and
\* an empty result ends main with `return 0`.  The dataset and the namespace are
\* chosen by the first run and kept by the later ones.
MainStart ==
  /\ pm_pc \in {"idle", "exited"}
  /\ pm_run < MaxRuns
  /\ \E ds \in Datasets, ns \in BuildNamespaces, force \in BOOLEAN,
        dry \in BOOLEAN :
       /\ pm_args # None => (ds = pm_args[1].dataset /\ ns = pm_args[1].namespace)
       /\ pm_args' = Some([dataset |-> ds, namespace |-> ns,
                           force_rebuild |-> force, dry_run |-> dry])
       /\ IF ds = <<>>
          THEN \* dataset[0] raises IndexError
               /\ pm_specs' = <<>>
               /\ pm_existing' = None
               /\ pm_lists' = 0
               /\ pm_to_build' = <<>>
               /\ pm_pc' = "exited"
               /\ pm_exit' = Some([exc |-> "IndexError"])
          ELSE LET specs == get_image_specs_from_dataset(ds, ns, DefaultTag)
                   existing == list_images(engine_images)
                   todo == filter_image_specs(specs, existing, force)
               IN  /\ pm_specs' = specs
                   /\ pm_existing' = Some(existing)
                   /\ pm_lists' = 1
                   /\ pm_to_build' = todo
                   /\ pm_pc' = IF todo = <<>> THEN "exited" ELSE "building"
                   /\ pm_exit' = IF todo = <<>> THEN Some([ret |-> "0"]) ELSE None
  /\ pm_run' = pm_run + 1
  /\ pm_prev' = IF pm_pc = "exited" THEN Some(RunSummary) ELSE None
  /\ pm_successful' = <<>>
  /\ pm_failed' = <<>>
  /\ pm_done' = {}
  /\ UNCHANGED engine_images
  /\ UNCHANGED notBuildVars

\* A build step that lists the engine's images again and decides anew.
BuildUnit_Relists ==
  /\ pm_pc = "building"
  /\ \E i \in (1..Len(pm_to_build)) \ pm_done, ok \in BOOLEAN :
       /\ pm_done' = pm_done \cup {i}
       /\ pm_successful' = IF ok THEN Append(pm_successful, pm_to_build[i])
                                 ELSE pm_successful
       /\ pm_failed' = IF ok THEN pm_failed ELSE Append(pm_failed, pm_to_build[i])
       /\ engine_images' =
            IF ok /\ ~pm_args[1].dry_run
            THEN engine_images \cup {ImageSpec_name(pm_to_build[i])}
            ELSE engine_images
  /\ pm_existing' = Some(list_images(engine_images))
  /\ pm_lists' = pm_lists + 1
  /\ UNCHANGED <<pm_pc, pm_run, pm_args, pm_specs, pm_to_build, pm_exit,
                 pm_prev>>
  /\ UNCHANGED notBuildVars

\* build_instance_images: one unit of the batch ends.  A build that
\* succeeds leaves the image in the engine under the spec's name, unless
\* dry_run, which only writes the build context; a build that fails is
\* recorded and the others go on.
BuildUnit ==
  /\ pm_pc = "building"
  /\ \E i \in (1..Len(pm_to_build)) \ pm_done, ok \in BOOLEAN :
       /\ pm_done' = pm_done \cup {i}
       /\ pm_successful' = IF ok THEN Append(pm_successful, pm_to_build[i])
                                 ELSE pm_successful
       /\ pm_failed' = IF ok THEN pm_failed ELSE Append(pm_failed, pm_to_build[i])
       /\ engine_images' =
            IF ok /\ ~pm_args[1].dry_run
            THEN engine_images \cup {ImageSpec_name(pm_to_build[i])}
            ELSE engine_images
  /\ UNCHANGED <<pm_pc, pm_run, pm_args, pm_specs, pm_existing, pm_lists,
                 pm_to_build, pm_exit, pm_prev>>
  /\ UNCHANGED notBuildVars

\* build_instance_images has returned; main prints the counts and ends
\* without a return value.
MainEnd ==
  /\ pm_pc = "building"
  /\ pm_done = 1..Len(pm_to_build)
  /\ pm_pc' = "exited"
  /\ pm_exit' = Some([ret |-> "None"])
  /\ UNCHANGED <<engine_images, pm_run, pm_args, pm_specs, pm_existing,
                 pm_lists, pm_to_build, pm_successful, pm_failed, pm_done,
                 pm_prev>>
  /\ UNCHANGED notBuildVars

\* The exit status of `python prepare_images.py`: the __main__ block calls
\* main(**vars(args)) and drops what it returns, so the interpreter ends with
\* status 0 when main returns and with status 1 on an uncaught exception.
script_exit_status(outcome) == IF "exc" \in DOMAIN outcome THEN 1 ELSE 0

\* Another process builds an image of one of these names in the engine.
ExternalBuild ==
  /\ \E name \in PossibleImages \ engine_images :
       engine_images' = engine_images \cup {name}
  /\ UNCHANGED <<pm_pc, pm_run, pm_args, pm_specs, pm_existing, pm_lists,
                 pm_to_build, pm_successful, pm_failed, pm_done, pm_exit,
                 pm_prev>>
  /\ UNCHANGED notBuildVars

NextBuild ==
  \/ MainStart
  \/ BuildUnit
  \/ MainEnd
  \/ ExternalBuild

\* ---------------------------------------------------------- the system
\* ------------------------------------------- build_local_datasets.py
\* A record (dict) is a function from its keys to values; a value is
\* Str(text) or NoneValue.

METADATA_FIELDS == {"log_parser", "eval_type", "eval_script", "image"}

BASE_REQUIRED_FIELDS ==
  {"repo", "instance_id", "base_commit", "patch", "test_patch",
   "problem_statement", "hints_text", "created_at", "version",
   "FAIL_TO_PASS", "PASS_TO_PASS"}

\* extra_required_fields as main passes it (None counts as no field)
ExtraRequiredFields ==
  {{}, {"environment_setup_commit"}, {"environment_setup_commit", "difficulty"}}

\* every key a record of these datasets can hold, in one fixed order
AllFieldsInOrder ==
  <<"repo", "instance_id", "base_commit", "patch", "test_patch",
    "problem_statement", "hints_text", "created_at", "version",
    "FAIL_TO_PASS", "PASS_TO_PASS", "log_parser", "eval_type", "eval_script",
    "image", "environment_setup_commit", "difficulty">>

\* s without the elements outside keep
RECURSIVE SelectIn(_, _)
SelectIn(s, keep) ==
  IF s = <<>> THEN <<>>
  ELSE IF Head(s) \in keep THEN <<Head(s)>> \o SelectIn(Tail(s), keep)
       ELSE SelectIn(Tail(s), keep)

Rotate(s, k) == SubSeq(s, k + 1, Len(s)) \o SubSeq(s, 1, k)

Reverse(s) == [i \in 1..Len(s) |-> s[Len(s) + 1 - i]]

\* The orders in which `for field in all_required` may visit the set: the
\* iteration order of a set of strings is not fixed by the language.  Every
\* member comes first in one of these orders.
IterationOrders(all_required) ==
  LET base == SelectIn(AllFieldsInOrder, all_required)
  IN  {Rotate(base, k) : k \in 0..(Len(base) - 1)}
      \cup {Rotate(Reverse(base), k) : k \in 0..(Len(base) - 1)}

\* dict.get(key, default)
dict_get(d, key, default) == IF key \in DOMAIN d THEN d[key] ELSE default

Placeholder == Str(<<"???">>)

\* the ValueError of validate_no_missing, by the parts of its message
ValidationError(dataset_label, example, field, what) ==
  [type |-> "ValueError", label |-> dataset_label,
   instance |-> dict_get(example, "instance_id", Placeholder),
   field |-> field, what |-> what]

NoError == [type |-> "none"]

\* A check that overlooks null values.
RECURSIVE validate_no_missing_KeysOnly(_, _, _)
validate_no_missing_KeysOnly(example, order, dataset_label) ==
  IF order = <<>> THEN NoError
  ELSE IF Head(order) \notin DOMAIN example
       THEN ValidationError(dataset_label, example, Head(order), "missing field")
       ELSE validate_no_missing_KeysOnly(example, Tail(order), dataset_label)

\* validate_no_missing(example, all_required, dataset_label), with the
\* order in which all_required is visited: the error raised, or NoError.
RECURSIVE validate_no_missing(_, _, _)
validate_no_missing(example, order, dataset_label) ==
  IF order = <<>> THEN NoError
  ELSE IF Head(order) \notin DOMAIN example
       THEN ValidationError(dataset_label, example, Head(order), "missing field")
       ELSE IF example[Head(order)] = NoneValue
            THEN ValidationError(dataset_label, example, Head(order), "is None")
            ELSE validate_no_missing(example, Tail(order), dataset_label)

\* A record with every key, each value the key's own name.
FullRecord == [k \in {AllFieldsInOrder[i] : i \in DOMAIN AllFieldsInOrder}
                 |-> Str(<<k>>)]

\* the fields in which the sample records differ from FullRecord
VaryingFields == {"instance_id", "hints_text", "image", "difficulty"}

\* FullRecord with some of the varying fields dropped or null.
Examples ==
  {[k \in DOMAIN FullRecord \ dropped |->
      IF k \in nulled THEN NoneValue ELSE FullRecord[k]] :
     dropped \in SUBSET VaryingFields, nulled \in SUBSET VaryingFields}

DatasetLabels == {<<"SWE-bench", "dev", 0>>, <<"SWE-bench_Verified", "test", 1>>}

InitValidate ==
  /\ vd_call = None
  /\ vd_result = None
  /\ vd_example = None

\* One call of validate_no_missing on a record.
CallValidate ==
  /\ vd_call = None
  /\ \E example \in Examples, extra \in ExtraRequiredFields,
        dataset_label \in DatasetLabels :
       \E order \in IterationOrders(BASE_REQUIRED_FIELDS \cup METADATA_FIELDS
                                    \cup extra) :
         /\ vd_call' = Some([example |-> example, order |-> order,
                             dataset_label |-> dataset_label])
         /\ vd_result' = Some(validate_no_missing(example, order, dataset_label))
         /\ vd_example' = Some(example)
  /\ UNCHANGED notValidateVars

NextValidate == CallValidate

\* get_image_name(instance_id)
get_image_name(instance_id) ==
  <<"swebench", "/", "sweb.eval.x86_64", ".">>
    \o str_lower(replace_dunder(instance_id)) \o <<":", "latest">>

\* parser_map and fail_only_repos of a call: repo "r" and "f" have a
\* parser, "f" is fail-only, any other repo is unknown.
ParserMap == [repo \in {<<"r">>, <<"f">>} |-> Str(<<"parse_log">>)]
FailOnlyRepos == {<<"f">>}

SplitNames == <<"dev", "test">>

\* an error of process_dataset other than a validation error
PdError(type, what) ==
  [type |-> type, label |-> <<>>, instance |-> NoneValue, field |-> "",
   what |-> what]

\* a row as load_dataset delivers it: no metadata column yet
RawRecord(repo, hints_text) ==
  [k \in DOMAIN FullRecord \ METADATA_FIELDS |->
     CASE k = "repo" -> Str(repo)
       [] k = "instance_id" -> Str(<<"a", "_", "_">>)
       [] k = "hints_text" -> hints_text
       [] OTHER -> FullRecord[k]]

RawRecords ==
  {RawRecord(<<"r">>, Str(<<"h">>)), RawRecord(<<"f">>, Str(<<"h">>)),
   RawRecord(<<"r">>, NoneValue), RawRecord(<<"u">>, Str(<<"h">>))}

\* load_dataset(hf_name): up to MaxSplits splits of up to MaxRows rows each
HfDatasets ==
  UNION {[1..n -> SeqsUpTo(RawRecords, MaxRows)] : n \in 1..MaxSplits}

\* generate_eval_scripts: the script of every instance, keyed by instance id
generate_eval_scripts(instances) ==
  [id \in {instances[i]["instance_id"] : i \in DOMAIN instances}
     |-> Str(<<"x">>)]

\* add_metadata(ex): the error it raises, or NoError
add_metadata_error(ex, eval_scripts) ==
  IF "repo" \notin DOMAIN ex THEN PdError("KeyError", "repo")
  ELSE IF ~IsStr(ex["repo"]) \/ ex["repo"].str \notin DOMAIN ParserMap
       THEN PdError("ValueError", "repo not found in parser map")
  ELSE IF "instance_id" \notin DOMAIN ex
       THEN PdError("KeyError", "instance_id")
  ELSE IF ex["instance_id"] \notin DOMAIN eval_scripts
       THEN PdError("KeyError", "instance_id")
  ELSE NoError

\* add_metadata(ex): the row with its four metadata columns
add_metadata(ex, eval_scripts) ==
  [k \in DOMAIN ex \cup METADATA_FIELDS |->
     CASE k = "log_parser" -> ParserMap[ex["repo"].str]
       [] k = "eval_type" ->
            IF ex["repo"].str \in FailOnlyRepos
            THEN Str(<<"fail_only">>) ELSE Str(<<"pass_and_fail">>)
       [] k = "eval_script" -> eval_scripts[ex["instance_id"]]
       [] k = "image" -> Str(get_image_name(ex["instance_id"].str))
       [] OTHER -> ex[k]]

\* the positions of the rows on which add_metadata raises
MapFailures(rows, eval_scripts) ==
  {i \in DOMAIN rows : add_metadata_error(rows[i], eval_scripts) # NoError}

Min(S) == CHOOSE x \in S : \A y \in S : x <= y

InitDataset ==
  /\ pd_pc = "idle"
  /\ pd_args = None
  /\ pd_ds = <<>>
  /\ pd_split = 0
  /\ pd_row = 0
  /\ pd_visited = {}
  /\ pd_saved = {}
  /\ pd_exit = None

\* process_dataset is called: the dataset is loaded and its splits selected.
CallProcessDataset ==
  /\ pd_pc = "idle"
  /\ \E ds \in HfDatasets, extra \in ExtraRequiredFields \ {{}},
        splits \in {None, Some({"test"})}, reversed \in BOOLEAN :
       LET all_required == BASE_REQUIRED_FIELDS \cup METADATA_FIELDS \cup extra
           base == SelectIn(AllFieldsInOrder, all_required)
           named == [i \in DOMAIN ds |-> [name |-> SplitNames[i], rows |-> ds[i]]]
           keep(sp) == splits = None \/ sp.name \in splits[1]
       IN  /\ pd_args' = Some([order |-> IF reversed THEN Reverse(base) ELSE base,
                               splits |-> splits, loaded |-> ds])
           /\ pd_ds' = SelectSeq(named, keep)
  /\ pd_split' = 1
  /\ pd_pc' = "generate"
  /\ UNCHANGED <<pd_row, pd_visited, pd_saved, pd_exit>>
  /\ UNCHANGED notDatasetVars

\* the head of the loop over the splits: generate_eval_scripts runs in a
\* subprocess and fails (RuntimeError) or delivers the scripts
GenerateEvalScripts ==
  /\ pd_pc = "generate"
  /\ pd_split <= Len(pd_ds)
  /\ \/ /\ pd_pc' = "map"
        /\ pd_exit' = pd_exit
     \/ /\ pd_pc' = "raised"
        /\ pd_exit' = Some(PdError("RuntimeError", "eval script generation failed"))
  /\ UNCHANGED <<pd_args, pd_ds, pd_split, pd_row, pd_visited, pd_saved>>
  /\ UNCHANGED notDatasetVars

\* ds.map(add_metadata): every row gets its metadata, or the first row on
\* which add_metadata raises ends process_dataset
MapAddMetadata ==
  /\ pd_pc = "map"
  /\ LET rows == pd_ds[pd_split].rows
         eval_scripts == generate_eval_scripts(rows)
         bad == MapFailures(rows, eval_scripts)
     IN  IF bad = {}
         THEN /\ pd_ds' = [pd_ds EXCEPT ![pd_split].rows =
                             [i \in DOMAIN rows |-> add_metadata(rows[i], eval_scripts)]]
              /\ pd_pc' = "validate"
              /\ pd_exit' = pd_exit
         ELSE /\ pd_ds' = pd_ds
              /\ pd_pc' = "raised"
              /\ pd_exit' = Some(add_metadata_error(rows[Min(bad)], eval_scripts))
  /\ pd_row' = 0
  /\ UNCHANGED <<pd_args, pd_split, pd_visited, pd_saved>>
  /\ UNCHANGED notDatasetVars

\* one turn of `for i, ex in enumerate(ds): validate_no_missing(...)`; the
\* ValueError is not caught anywhere in process_dataset or in main
ValidateRow ==
  /\ pd_pc = "validate"
  /\ pd_row < Len(pd_ds[pd_split].rows)
  /\ LET ex == pd_ds[pd_split].rows[pd_row + 1]
         dataset_label == <<"label", pd_ds[pd_split].name, pd_row>>
         err == validate_no_missing(ex, pd_args[1].order, dataset_label)
     IN  /\ pd_visited' = pd_visited \cup {<<pd_split, pd_row + 1>>}
         /\ IF err = NoError
            THEN /\ pd_row' = pd_row + 1
                 /\ UNCHANGED <<pd_pc, pd_exit>>
            ELSE /\ pd_pc' = "raised"
                 /\ pd_exit' = Some(err)
                 /\ pd_row' = pd_row
  /\ UNCHANGED <<pd_args, pd_ds, pd_split, pd_saved>>
  /\ UNCHANGED notDatasetVars

\* ds_dict[split_name] = ds, and on to the next split or to the saving
StoreSplit ==
  /\ pd_pc = "validate"
  /\ pd_row = Len(pd_ds[pd_split].rows)
  /\ pd_split' = pd_split + 1
  /\ pd_pc' = IF pd_split < Len(pd_ds) THEN "generate" ELSE "save"
  /\ UNCHANGED <<pd_args, pd_ds, pd_row, pd_visited, pd_saved, pd_exit>>
  /\ UNCHANGED notDatasetVars

\* no split was selected: the loop body never runs
SkipLoop ==
  /\ pd_pc = "generate"
  /\ pd_split > Len(pd_ds)
  /\ pd_pc' = "save"
  /\ UNCHANGED <<pd_args, pd_ds, pd_split, pd_row, pd_visited, pd_saved, pd_exit>>
  /\ UNCHANGED notDatasetVars

\* ds.to_parquet for the next split
SaveSplit ==
  /\ pd_pc = "save"
  /\ Cardinality(pd_saved) < Len(pd_ds)
  /\ pd_saved' = pd_saved \cup {Cardinality(pd_saved) + 1}
  /\ UNCHANGED <<pd_pc, pd_args, pd_ds, pd_split, pd_row, pd_visited, pd_exit>>
  /\ UNCHANGED notDatasetVars

\* process_dataset returns
DoneProcessDataset ==
  /\ pd_pc = "save"
  /\ Cardinality(pd_saved) = Len(pd_ds)
  /\ pd_pc' = "done"
  /\ pd_exit' = Some(NoError)
  /\ UNCHANGED <<pd_args, pd_ds, pd_split, pd_row, pd_visited, pd_saved>>
  /\ UNCHANGED notDatasetVars

NextDataset ==
  \/ CallProcessDataset
  \/ GenerateEvalScripts
  \/ MapAddMetadata
  \/ ValidateRow
  \/ StoreSplit
  \/ SkipLoop
  \/ SaveSplit
  \/ DoneProcessDataset

\* ------------------------------------------------------ grading engine
\* grade(parsed, spec) of swebench.harness.grading, after section 4.4 of the
\* specification: the module is imported by swebench/harness/__init__.py
\* and is not part of the sources at hand.

TestNames == {"test_a", "test_b"}
Outcomes == {"PASSED", "FAILED", "ERROR", "SKIPPED"}

\* ParsedLogResult: a mapping from some of the test names to an outcome
ParsedLogs == UNION {[names -> Outcomes] : names \in SUBSET TestNames}

\* the names of a list, in order, whose outcome in parsed is not PASSED; a
\* name the log does not hold has no outcome
RECURSIVE not_passed(_, _)
not_passed(names, parsed) ==
  IF names = <<>> THEN <<>>
  ELSE LET outcome == IF Head(names) \in DOMAIN parsed
                      THEN parsed[Head(names)] ELSE "ABSENT"
       IN  (IF outcome = "PASSED" THEN <<>> ELSE <<Head(names)>>)
             \o not_passed(Tail(names), parsed)

\* A grading that ignores the names the log does not hold.
grade_IgnoresAbsent(parsed, spec) ==
  LET seen(names) == SelectSeq(names, LAMBDA n : n \in DOMAIN parsed)
      f2p == not_passed(seen(spec.FAIL_TO_PASS), parsed)
      p2p == not_passed(seen(spec.PASS_TO_PASS), parsed)
  IN  [verdict |-> IF f2p = <<>> /\ p2p = <<>> THEN "RESOLVED" ELSE "UNRESOLVED",
       fail_to_pass |-> f2p, pass_to_pass |-> p2p]

\* grade(parsed, spec) -> GradingReport
grade(parsed, spec) ==
  LET f2p == not_passed(spec.FAIL_TO_PASS, parsed)
      p2p == not_passed(spec.PASS_TO_PASS, parsed)
  IN  [verdict |-> IF f2p = <<>> /\ p2p = <<>> THEN "RESOLVED" ELSE "UNRESOLVED",
       fail_to_pass |-> f2p, pass_to_pass |-> p2p]

InitGrade ==
  /\ gr_call = None
  /\ gr_report = None

\* One grading of one parsed log against the two name lists of a TestSpec.
CallGrade ==
  /\ gr_call = None
  /\ \E parsed \in ParsedLogs, f2p \in SeqsUpTo(TestNames, MaxTests),
        p2p \in SeqsUpTo(TestNames, MaxTests) :
       LET spec == [FAIL_TO_PASS |-> f2p, PASS_TO_PASS |-> p2p]
       IN  /\ gr_call' = Some([parsed |-> parsed, spec |-> spec])
           /\ gr_report' = Some(grade(parsed, spec))
  /\ UNCHANGED notGradeVars

NextGrade == CallGrade

\* --------------------------------------- inference/run_custom_api.py
\* An instance is named by its position in the dataset once main has sorted
\* it by text length; instance ids are unique in a dataset.  A process is
\* named by its shard_id, 0 for the run without shards; every process has
\* its own output file.

\* num_shards of a configuration, 1 standing for a run without shards
ShardCounts == {1, 2}

\* Dataset.shard(num_shards, index, contiguous=True)
dataset_shard(dataset, num_shards, index) ==
  LET div == Len(dataset) \div num_shards
      mod == Len(dataset) % num_shards
      start == div * index + (IF index < mod THEN index ELSE mod)
      end == start + div + (IF index < mod THEN 1 ELSE 0)
  IN  SubSeq(dataset, start + 1, end)

\* main, lines 172-182: the sorted dataset without the instances of
\* existing_ids, and of that the shard of this process
main_dataset(dataset, existing_ids, num_shards, shard_id) ==
  LET filtered == IF existing_ids # {}
                  THEN SelectSeq(dataset, LAMBDA x : x \notin existing_ids)
                  ELSE dataset
  IN  IF num_shards > 1 THEN dataset_shard(filtered, num_shards, shard_id)
      ELSE filtered

\* A start that does not look at the output file.
read_existing_ids_Empty(file) == {}

\* main, lines 147-152: the instance ids of the lines of the output file
read_existing_ids(file) == {file[k] : k \in DOMAIN file}

\* what one call of call_api gives custom_api_inference: the response text,
\* None (the API reported an error) or an exception (attempts exhausted)
CallOutcomes == {"text", "None", "exception"}

\* A loop that writes a line whatever the call gave.
write_line_Always(file, instance_id, outcome) == Append(file, instance_id)

\* custom_api_inference, lines 94-115: what the output file holds after
\* the call for instance_id ended with outcome
write_line(file, instance_id, outcome) ==
  IF outcome = "text" THEN Append(file, instance_id) ELSE file

IdleProcess ==
  [pc |-> "idle", test_dataset |-> <<>>, existing_ids |-> {}, pos |-> 0,
   tried |-> {}, last |-> "", starts |-> 0]

InitInference ==
  /\ inf_cfg = None
  /\ inf_files = <<>>
  /\ inf_proc = <<>>
  /\ inf_sent = {}
  /\ inf_ok = {}

Shards == IF inf_cfg = None THEN {} ELSE 0..(inf_cfg[1].num_shards - 1)

\* The dataset and the number of shards of the campaign are fixed.
ConfigureInference ==
  /\ inf_cfg = None
  /\ \E n \in 1..MaxInstances, num_shards \in ShardCounts :
       /\ inf_cfg' = Some([dataset |-> [i \in 1..n |-> i],
                           num_shards |-> num_shards])
       /\ inf_files' = [s \in 0..(num_shards - 1) |-> <<>>]
       /\ inf_proc' = [s \in 0..(num_shards - 1) |-> IdleProcess]
  /\ UNCHANGED <<inf_sent, inf_ok>>
  /\ UNCHANGED notInferenceVars

\* main of one process up to the loop of custom_api_inference: the ids of
\* its output file are read, the dataset is filtered and sharded.
StartRun ==
  /\ inf_cfg # None
  /\ \E s \in Shards :
       /\ inf_proc[s].pc \in {"idle", "stopped", "done"}
       /\ inf_proc[s].starts < MaxStarts
       /\ LET existing_ids == read_existing_ids(inf_files[s])
          IN  inf_proc' = [inf_proc EXCEPT ![s] =
                [pc |-> "loop",
                 test_dataset |-> main_dataset(inf_cfg[1].dataset, existing_ids,
                                               inf_cfg[1].num_shards, s),
                 existing_ids |-> existing_ids,
                 pos |-> 0, tried |-> {}, last |-> "",
                 starts |-> inf_proc[s].starts + 1]]
  /\ UNCHANGED <<inf_cfg, inf_files, inf_sent, inf_ok>>
  /\ UNCHANGED notInferenceVars

\* The loop takes the next datum: it is skipped when its id is in
\* existing_ids, otherwise call_api is entered and the request goes out.
NextDatum ==
  /\ inf_cfg # None
  /\ \E s \in Shards :
       LET p == inf_proc[s] IN
       /\ p.pc = "loop"
       /\ p.pos < Len(p.test_dataset)
       /\ LET instance_id == p.test_dataset[p.pos + 1] IN
          IF instance_id \in p.existing_ids
          THEN /\ inf_proc' = [inf_proc EXCEPT ![s].pos = p.pos + 1]
               /\ UNCHANGED inf_sent
          ELSE /\ inf_proc' = [inf_proc EXCEPT ![s].pc = "calling",
                                               ![s].tried = p.tried \cup {instance_id}]
               /\ inf_sent' = inf_sent \cup {<<s, instance_id>>}
  /\ UNCHANGED <<inf_cfg, inf_files, inf_ok>>
  /\ UNCHANGED notInferenceVars

\* call_api ends: a text is written as one line, None and an exception are
\* logged; in every case the loop goes on with the next datum.
CallEnds ==
  /\ inf_cfg # None
  /\ \E s \in Shards, outcome \in CallOutcomes :
       LET p == inf_proc[s]
           instance_id == p.test_dataset[p.pos + 1]
       IN
       /\ p.pc = "calling"
       /\ inf_files' = [inf_files EXCEPT ![s] = write_line(@, instance_id, outcome)]
       /\ inf_ok' = IF outcome = "text" THEN inf_ok \cup {<<s, instance_id>>}
                    ELSE inf_ok
       /\ inf_proc' = [inf_proc EXCEPT ![s].pc = "loop", ![s].pos = p.pos + 1,
                                       ![s].last = outcome]
  /\ UNCHANGED <<inf_cfg, inf_sent>>
  /\ UNCHANGED notInferenceVars

\* The loop is over and main returns.
RunDone ==
  /\ inf_cfg # None
  /\ \E s \in Shards :
       /\ inf_proc[s].pc = "loop"
       /\ inf_proc[s].pos = Len(inf_proc[s].test_dataset)
       /\ inf_proc' = [inf_proc EXCEPT ![s].pc = "done"]
  /\ UNCHANGED <<inf_cfg, inf_files, inf_sent, inf_ok>>
  /\ UNCHANGED notInferenceVars

\* The process is stopped from outside, between two instances or while a
\* request is out.
StopRun ==
  /\ inf_cfg # None
  /\ \E s \in Shards :
       /\ inf_proc[s].pc \in {"loop", "calling"}
       /\ inf_proc' = [inf_proc EXCEPT ![s].pc = "stopped"]
  /\ UNCHANGED <<inf_cfg, inf_files, inf_sent, inf_ok>>
  /\ UNCHANGED notInferenceVars

NextInference ==
  \/ ConfigureInference
  \/ StartRun
  \/ NextDatum
  \/ CallEnds
  \/ RunDone
  \/ StopRun

\* ----------------------------- inference/run_custom_api.py: call_custom_api
\* --retries is any int
RetryCounts == (0 - 1)..MaxRetries

\* how one POST attempt ends: the request raises (no connection, a time
\* out), raise_for_status raises, the body has error_code 0 and no text
\* (KeyError), error_code is not 0, error_code is absent, or error_code is
\* 0 and the text is there
AttemptOutcomes ==
  {"ConnectionError", "HTTPError", "KeyError", "error_code", "absent", "text"}

\* the attempts that leave call_custom_api by an exception
AttemptRaises(outcome) ==
  outcome \in {"ConnectionError", "HTTPError", "KeyError"}

\* A stop condition that allows one attempt more.
stop_after_attempt_OneMore(max_attempt_number, attempt_number) ==
  attempt_number > max_attempt_number

\* tenacity.stop_after_attempt(max_attempt_number), asked after a failed
\* attempt with the number of attempts made so far
stop_after_attempt(max_attempt_number, attempt_number) ==
  attempt_number >= max_attempt_number

\* body.get("error_code", -1)
body_error_code(outcome) ==
  CASE outcome = "error_code" -> 7
    [] outcome = "absent" -> 0 - 1
    [] OTHER -> 0

InitApi ==
  /\ api_pc = "idle"
  /\ api_max_retries = None
  /\ api_attempts = <<>>
  /\ api_result = None

\* call_api = _make_call_custom_api(retries); call_api(...) is entered and
\* the first attempt starts.
CallApi ==
  /\ api_pc = "idle"
  /\ \E max_retries \in RetryCounts : api_max_retries' = Some(max_retries)
  /\ api_pc' = "attempt"
  /\ UNCHANGED <<api_attempts, api_result>>
  /\ UNCHANGED notApiVars

\* One attempt: the POST is made and call_custom_api returns or raises;
\* after an exception the retry decorator asks its stop condition.
Attempt ==
  /\ api_pc = "attempt"
  /\ \E outcome \in AttemptOutcomes :
       /\ api_attempts' = Append(api_attempts, outcome)
       /\ IF AttemptRaises(outcome)
          THEN IF stop_after_attempt(api_max_retries[1], Len(api_attempts) + 1)
               THEN /\ api_pc' = "ended"
                    /\ api_result' = Some([exc |-> "RetryError"])
               ELSE /\ api_pc' = "sleep"
                    /\ UNCHANGED api_result
          ELSE /\ api_pc' = "ended"
               /\ api_result' =
                    Some([ret |-> IF body_error_code(outcome) # 0
                                  THEN "None" ELSE "text"])
  /\ UNCHANGED api_max_retries
  /\ UNCHANGED notApiVars

\* wait_random_exponential is over and the next attempt starts.
Sleep ==
  /\ api_pc = "sleep"
  /\ api_pc' = "attempt"
  /\ UNCHANGED <<api_max_retries, api_attempts, api_result>>
  /\ UNCHANGED notApiVars

NextApi ==
  \/ CallApi
  \/ Attempt
  \/ Sleep

\* -------------------------------------------- log parsers (two strategies)
\* The parser functions the registry names are defined outside the files
\* at hand; the two strategies are modelled as the specification gives
\* them.  A log line is its sequence of words.

\* the status tokens of the frameworks and the outcome tag of each
\* (FAIL_colon is the token "FAIL:")
StatusTokens ==
  [PASSED |-> "PASSED", ok |-> "PASSED", FAILED |-> "FAILED",
   FAIL_colon |-> "FAILED", ERROR |-> "ERROR", SKIPPED |-> "SKIPPED"]

\* a line of the form <STATUS_TOKEN> <test_identifier>
IsStatusLine(line) == Len(line) = 2 /\ line[1] \in DOMAIN StatusTokens

\* A recording that keeps the entry an identifier already has.
record_outcome_KeepFirst(mapping, test, outcome) ==
  [t \in DOMAIN mapping \cup {test} |->
     IF t \in DOMAIN mapping THEN mapping[t] ELSE outcome]

\* record or overwrite the mapping entry of a test identifier
record_outcome(mapping, test, outcome) ==
  [t \in DOMAIN mapping \cup {test} |->
     IF t = test THEN outcome ELSE mapping[t]]

\* per-line status strategy: the lines are scanned first to last
RECURSIVE parse_per_line(_)
parse_per_line(log) ==
  IF log = <<>> THEN <<>>
  ELSE LET scanned == parse_per_line(SubSeq(log, 1, Len(log) - 1))
           line == log[Len(log)]
       IN  IF IsStatusLine(line)
           THEN record_outcome(scanned, line[2], StatusTokens[line[1]])
           ELSE scanned

\* An inference that leaves the unlisted names out.
inferred_passed_Nothing(expected) == <<>>

\* aggregate-failure strategy: what is inferred before the block is read
inferred_passed(expected) == [t \in expected |-> "PASSED"]

\* aggregate-failure strategy: the entries of the failure block, each a
\* kind and a test identifier, are scanned first to last; an entry of a
\* name outside the expected set says nothing about an expected name
RECURSIVE parse_aggregate(_, _)
parse_aggregate(block, expected) ==
  IF block = <<>> THEN inferred_passed(expected)
  ELSE LET scanned == parse_aggregate(SubSeq(block, 1, Len(block) - 1), expected)
           entry == block[Len(block)]
       IN  IF entry[2] \in expected
           THEN record_outcome(scanned, entry[2], entry[1])
           ELSE scanned

LogLines ==
  {<<token, test>> : token \in DOMAIN StatusTokens \cup {"collected"},
                     test \in TestNames} \cup {<<>>}
Logs == SeqsUpTo(LogLines, MaxLogLen)

ExpectedNames == TestNames \cup {"test_c"}
FailureKinds == {"FAILED", "ERROR"}
FailureBlocks == SeqsUpTo(FailureKinds \X ExpectedNames, MaxLogLen)

InitParsers ==
  /\ lp_call = None
  /\ lp_result = None

\* A parser of the per-line status strategy is called on a log.
CallPerLineParser ==
  /\ lp_call = None
  /\ \E log \in Logs :
       /\ lp_call' = Some([strategy |-> "per_line", log |-> log])
       /\ lp_result' = Some(parse_per_line(log))
  /\ UNCHANGED notParsersVars

\* A parser of the aggregate-failure strategy is called on a log, of which
\* the failure block counts, and the expected test names.
CallAggregateParser ==
  /\ lp_call = None
  /\ \E block \in FailureBlocks, expected \in SUBSET ExpectedNames :
       /\ lp_call' = Some([strategy |-> "aggregate", block |-> block,
                           expected |-> expected])
       /\ lp_result' = Some(parse_aggregate(block, expected))
  /\ UNCHANGED notParsersVars

NextParsers ==
  \/ CallPerLineParser
  \/ CallAggregateParser

\* ------------------------- build_local_datasets.py and the parser registry
\* A repository and a parser key are one atom each here.

\* the keys of PARSER_REGISTRY
PARSER_REGISTRY ==
  {"parse_log_ant", "parse_log_astroid", "parse_log_astropy",
   "parse_log_calypso", "parse_log_cargo", "parse_log_chart_js",
   "parse_log_cucumber", "parse_log_django", "parse_log_doctest",
   "parse_log_flask", "parse_log_googletest", "parse_log_gotest",
   "parse_log_gradle_custom", "parse_log_immutable_js", "parse_log_jekyll",
   "parse_log_jest", "parse_log_jest_json", "parse_log_jq",
   "parse_log_karma", "parse_log_marked", "parse_log_marshmallow",
   "parse_log_matplotlib", "parse_log_maven", "parse_log_micropython_test",
   "parse_log_minitest", "parse_log_p5js", "parse_log_phpunit",
   "parse_log_pvlib", "parse_log_pydicom", "parse_log_pylint",
   "parse_log_pytest", "parse_log_pytest_options", "parse_log_pytest_v2",
   "parse_log_pyvista", "parse_log_react_pdf", "parse_log_redis",
   "parse_log_requests", "parse_log_rspec_transformed_json",
   "parse_log_ruby_unit", "parse_log_scikit", "parse_log_seaborn",
   "parse_log_sphinx", "parse_log_sqlfluff", "parse_log_sympy",
   "parse_log_tap", "parse_log_vitest", "parse_log_xarray"}

\* build_local_datasets.py, lines 69-88
MAP_REPO_TO_PARSER_NAME_OG ==
     "astropy/astropy" :> "parse_log_astropy"
  @@ "django/django" :> "parse_log_django"
  @@ "marshmallow-code/marshmallow" :> "parse_log_marshmallow"
  @@ "matplotlib/matplotlib" :> "parse_log_matplotlib"
  @@ "mwaskom/seaborn" :> "parse_log_seaborn"
  @@ "pallets/flask" :> "parse_log_flask"
  @@ "psf/requests" :> "parse_log_requests"
  @@ "pvlib/pvlib-python" :> "parse_log_pvlib"
  @@ "pydata/xarray" :> "parse_log_xarray"
  @@ "pydicom/pydicom" :> "parse_log_pydicom"
  @@ "pylint-dev/astroid" :> "parse_log_astroid"
  @@ "pylint-dev/pylint" :> "parse_log_pylint"
  @@ "pytest-dev/pytest" :> "parse_log_pytest"
  @@ "pyvista/pyvista" :> "parse_log_pyvista"
  @@ "scikit-learn/scikit-learn" :> "parse_log_scikit"
  @@ "sqlfluff/sqlfluff" :> "parse_log_sqlfluff"
  @@ "sphinx-doc/sphinx" :> "parse_log_sphinx"
  @@ "sympy/sympy" :> "parse_log_sympy"

FAIL_ONLY_REPOS_OG == {}

\* build_local_datasets.py, lines 91-138
MAP_REPO_TO_PARSER_NAME_MULTILINGUAL ==
     "redis/redis" :> "parse_log_redis"
  @@ "jqlang/jq" :> "parse_log_jq"
  @@ "nlohmann/json" :> "parse_log_doctest"
  @@ "micropython/micropython" :> "parse_log_micropython_test"
  @@ "valkey-io/valkey" :> "parse_log_redis"
  @@ "fmtlib/fmt" :> "parse_log_googletest"
  @@ "caddyserver/caddy" :> "parse_log_gotest"
  @@ "hashicorp/terraform" :> "parse_log_gotest"
  @@ "prometheus/prometheus" :> "parse_log_gotest"
  @@ "gohugoio/hugo" :> "parse_log_gotest"
  @@ "gin-gonic/gin" :> "parse_log_gotest"
  @@ "google/gson" :> "parse_log_maven"
  @@ "apache/druid" :> "parse_log_maven"
  @@ "javaparser/javaparser" :> "parse_log_maven"
  @@ "projectlombok/lombok" :> "parse_log_ant"
  @@ "apache/lucene" :> "parse_log_gradle_custom"
  @@ "reactivex/rxjava" :> "parse_log_gradle_custom"
  @@ "Automattic/wp-calypso" :> "parse_log_calypso"
  @@ "chartjs/Chart.js" :> "parse_log_chart_js"
  @@ "markedjs/marked" :> "parse_log_marked"
  @@ "processing/p5.js" :> "parse_log_p5js"
  @@ "diegomura/react-pdf" :> "parse_log_react_pdf"
  @@ "babel/babel" :> "parse_log_jest"
  @@ "vuejs/core" :> "parse_log_vitest"
  @@ "facebook/docusaurus" :> "parse_log_jest"
  @@ "immutable-js/immutable-js" :> "parse_log_immutable_js"
  @@ "mrdoob/three.js" :> "parse_log_tap"
  @@ "preactjs/preact" :> "parse_log_karma"
  @@ "axios/axios" :> "parse_log_tap"
  @@ "phpoffice/phpspreadsheet" :> "parse_log_phpunit"
  @@ "laravel/framework" :> "parse_log_phpunit"
  @@ "php-cs-fixer/php-cs-fixer" :> "parse_log_phpunit"
  @@ "briannesbitt/carbon" :> "parse_log_phpunit"
  @@ "jekyll/jekyll" :> "parse_log_jekyll"
  @@ "fluent/fluentd" :> "parse_log_ruby_unit"
  @@ "fastlane/fastlane" :> "parse_log_rspec_transformed_json"
  @@ "jordansissel/fpm" :> "parse_log_rspec_transformed_json"
  @@ "faker-ruby/faker" :> "parse_log_ruby_unit"
  @@ "rubocop/rubocop" :> "parse_log_rspec_transformed_json"
  @@ "burntsushi/ripgrep" :> "parse_log_cargo"
  @@ "sharkdp/bat" :> "parse_log_cargo"
  @@ "astral-sh/ruff" :> "parse_log_cargo"
  @@ "tokio-rs/tokio" :> "parse_log_cargo"
  @@ "uutils/coreutils" :> "parse_log_cargo"
  @@ "nushell/nushell" :> "parse_log_cargo"
  @@ "tokio-rs/axum" :> "parse_log_cargo"

FAIL_ONLY_REPOS_MULTILINGUAL == {}

\* build_local_datasets.py, lines 141-154
MAP_REPO_TO_PARSER_NAME_MULTIMODAL ==
     "Automattic/wp-calypso" :> "parse_log_calypso"
  @@ "chartjs/Chart.js" :> "parse_log_chart_js"
  @@ "markedjs/marked" :> "parse_log_marked"
  @@ "processing/p5.js" :> "parse_log_p5js"
  @@ "diegomura/react-pdf" :> "parse_log_react_pdf"
  @@ "babel/babel" :> "parse_log_jest"
  @@ "vuejs/core" :> "parse_log_vitest"
  @@ "facebook/docusaurus" :> "parse_log_jest"
  @@ "immutable-js/immutable-js" :> "parse_log_immutable_js"
  @@ "mrdoob/three.js" :> "parse_log_tap"
  @@ "preactjs/preact" :> "parse_log_karma"
  @@ "axios/axios" :> "parse_log_tap"

\* build_local_datasets.py, lines 155-159
FAIL_ONLY_REPOS_MULTIMODAL ==
  {"chartjs/Chart.js", "markedjs/marked", "processing/p5.js"}

\* main: the parser map and the fail-only set of each process_dataset call
ProcessDatasetCalls ==
  <<[label |-> "SWE-bench",
     parser_map |-> MAP_REPO_TO_PARSER_NAME_OG,
     fail_only_repos |-> FAIL_ONLY_REPOS_OG],
    [label |-> "SWE-bench_Verified",
     parser_map |-> MAP_REPO_TO_PARSER_NAME_OG,
     fail_only_repos |-> FAIL_ONLY_REPOS_OG],
    [label |-> "SWE-bench_Multilingual",
     parser_map |-> MAP_REPO_TO_PARSER_NAME_MULTILINGUAL,
     fail_only_repos |-> FAIL_ONLY_REPOS_MULTILINGUAL],
    [label |-> "SWE-bench_Multimodal",
     parser_map |-> MAP_REPO_TO_PARSER_NAME_MULTIMODAL,
     fail_only_repos |-> FAIL_ONLY_REPOS_MULTIMODAL]>>

\* An annotation that gives a repo outside the map a parser key of its own.
annotate_DefaultParser(repo, parser_map, fail_only_repos) ==
  [log_parser |-> IF repo \in DOMAIN parser_map THEN parser_map[repo]
                  ELSE "parse_log_default",
   eval_type |-> IF repo \in fail_only_repos THEN "fail_only"
                 ELSE "pass_and_fail"]

\* add_metadata, lines 245-252: the ValueError for a repo outside the
\* parser map, otherwise the log_parser and the eval_type set on the record
annotate(repo, parser_map, fail_only_repos) ==
  IF repo \notin DOMAIN parser_map
  THEN [exc |-> "ValueError"]
  ELSE [log_parser |-> parser_map[repo],
        eval_type |-> IF repo \in fail_only_repos THEN "fail_only"
                      ELSE "pass_and_fail"]

\* the repos of the records: those of the three maps and one of none
Repos ==
  DOMAIN MAP_REPO_TO_PARSER_NAME_OG
    \cup DOMAIN MAP_REPO_TO_PARSER_NAME_MULTILINGUAL
    \cup DOMAIN MAP_REPO_TO_PARSER_NAME_MULTIMODAL
    \cup {"octocat/hello-world"}

InitAnnotate ==
  /\ an_call = None
  /\ an_result = None

\* add_metadata is applied to a record of a repo in one of the
\* process_dataset calls of main.
AnnotateRecord ==
  /\ an_call = None
  /\ \E c \in DOMAIN ProcessDatasetCalls, repo \in Repos :
       /\ an_call' = Some([call |-> c, repo |-> repo])
       /\ an_result' = Some(annotate(repo, ProcessDatasetCalls[c].parser_map,
                                     ProcessDatasetCalls[c].fail_only_repos))
  /\ UNCHANGED notAnnotateVars

NextAnnotate ==
  \/ AnnotateRecord

\* -------------------- the image reference of an instance, recorded and built
\* the namespace of the references that dataset building records
RecordedNamespace == Some(<<"swebench">>)

InitImageRef ==
  /\ ref_instance_id = None
  /\ ref_recorded = None
  /\ ref_built = None

\* Dataset building: add_metadata sets ex["image"] of an instance.
RecordImage ==
  /\ ref_instance_id = None
  /\ \E instance_id \in InstanceIds \ {<<>>} :
       /\ ref_instance_id' = Some(instance_id)
       /\ ref_recorded' = Some(get_image_name(instance_id))
  /\ UNCHANGED ref_built
  /\ UNCHANGED notImageRefVars

\* The build orchestrator: make_image_spec for that instance under the
\* namespace of the recorded references, tag and arch left at their
\* defaults; the image is built and looked up under the spec's name.
BuildImage ==
  /\ ref_instance_id # None
  /\ ref_built = None
  /\ LET spec == make_image_spec(ref_instance_id[1], <<"FROM">>,
                                 RecordedNamespace, DefaultTag)
     IN  /\ ImageSpec_post_init(spec) = ""
         /\ ref_built' = Some(ImageSpec_name(spec))
  /\ UNCHANGED <<ref_instance_id, ref_recorded>>
  /\ UNCHANGED notImageRefVars

NextImageRef ==
  \/ RecordImage
  \/ BuildImage

\* ------------------------------------------------------------ system
vars == <<iargs, ispec, ierr, ipeer, inames, iplatform, ifilesafe,
          rt_pc, payloads, raises, max_workers, submitted, fstate, calls,
          completion, ac_early, ac_finished, ac_queue, succeeded,
          failed, pbar,
          ts_instance, ts_result, ts_source, test_spec, ts_script, ts_reparsed,
          engine_images, pm_pc, pm_run, pm_args, pm_specs, pm_existing,
          pm_lists, pm_to_build, pm_successful, pm_failed, pm_done, pm_exit,
          pm_prev, vd_call, vd_result, vd_example,
          pd_pc, pd_args, pd_ds, pd_split, pd_row, pd_visited, pd_saved,
          pd_exit, gr_call, gr_report,
          inf_cfg, inf_files, inf_proc, inf_sent, inf_ok,
          api_pc, api_max_retries, api_attempts, api_result,
          lp_call, lp_result,
          an_call, an_result,
          ref_instance_id, ref_recorded, ref_built>>

Init ==
  /\ InitImage /\ InitPool /\ InitTestSpec /\ InitBuild
  /\ InitValidate /\ InitDataset /\ InitGrade
  /\ InitInference
  /\ InitApi
  /\ InitParsers
  /\ InitAnnotate
  /\ InitImageRef

\* Any step of any component.
Next ==
  \/ NextImage \/ NextPool \/ NextTestSpec \/ NextBuild
  \/ NextValidate \/ NextDataset \/ NextGrade
  \/ NextInference
  \/ NextApi
  \/ NextParsers
  \/ NextAnnotate
  \/ NextImageRef

Spec == Init /\ [][Next]_vars

\* The batch build entry point alone.
SpecBuild ==
  Init /\ [][NextBuild]_vars

\* The test-spec builder alone.
SpecTestSpec ==
  Init /\ [][NextTestSpec]_vars

\* The dispatcher alone: one call of run_threadpool.
SpecPool ==
  Init /\ [][NextPool]_vars

\* Image identity and naming alone.
SpecImage ==
  Init /\ [][NextImage]_vars

\* validate_no_missing alone: one call on one record.
SpecValidate ==
  Init /\ [][NextValidate]_vars

\* The grading engine alone: one grading.
SpecGrade ==
  Init /\ [][NextGrade]_vars

\* The dataset builder alone: one call of process_dataset.
SpecDataset ==
  Init /\ [][NextDataset]_vars

\* The inference runner alone: the runs of one campaign.
SpecInference ==
  Init /\ [][NextInference]_vars

\* One call of the caller built by _make_call_custom_api.
SpecApi ==
  Init /\ [][NextApi]_vars

\* A log parser alone: one call.
SpecParsers ==
  Init /\ [][NextParsers]_vars

\* What the dispatcher and its workers do once run_threadpool is called.
PoolProgress ==
  \/ Submit
  \/ WorkerStart
  \/ WorkerFinish
  \/ AsCompleted
  \/ Iterate
  \/ ReturnPooled
  \/ SeqCall
  \/ SeqDone
  \/ ReturnSequential

\* The dispatcher under its scheduling: the dispatching thread is never
\* stopped for ever, a worker thread that can take a work item does, and
\* every call of func ends.  Nothing says that run_threadpool is called.
SpecPoolLive ==
  Init /\ [][NextPool]_vars /\ WF_vars(PoolProgress)

\* The annotation of one record by the dataset builder.
SpecAnnotate ==
  Init /\ [][NextAnnotate]_vars

\* The image reference of one instance, as recorded and as built.
SpecImageRef ==
  Init /\ [][NextImageRef]_vars

\* ------------------------------------------------- claims on ImageSpec

\* The specs whose names ReadName read, in the order of inames[1].
NamedSpecs == IF ipeer = None THEN <<ispec[1]>> ELSE <<ispec[1], ipeer[1]>>

\* C7 as stated: the name of every accepted ImageSpec, namespace present or
\* absent, holds no uppercase character and no two consecutive underscores.
C7_NameNoUpperNoDunder ==
  inames # None =>
    \A i \in 1..Len(inames[1]) :
      ~HasUpper(inames[1][i]) /\ ~HasDunder(inames[1][i])

\* What ImageSpec.name does guarantee: the name of every accepted ImageSpec
\* holds no uppercase character; the name of a local image (no namespace) holds two consecutive
\* underscores exactly when its instance id or its tag does, and the name of a
\* remote image exactly when its namespace, instance id or tag holds a run of
\* three or more underscores.
NameLowerAndDunderRule ==
  inames # None =>
    \A i \in 1..Len(inames[1]) :
      LET self == NamedSpecs[i]
          name == inames[1][i]
      IN  /\ ~HasUpper(name)
          /\ HasDunder(name) <=>
               IF self.namespace = None
               THEN HasDunder(self.instance_id) \/ HasDunder(self.tag)
               ELSE \/ HasRun3(self.namespace[1])
                    \/ HasRun3(self.instance_id)
                    \/ HasRun3(self.tag)

\* The name of a remote image whose instance id is a run of three
\* underscores has been read and holds two consecutive underscores.
RemoteNameKeepsDunder ==
  /\ inames # None
  /\ ispec[1].namespace # None
  /\ ispec[1].instance_id = <<"_", "_", "_">>
  /\ ispec[1].tag = <<"B", "_", "_">>
  /\ HasDunder(inames[1][1])

\* C8 as stated: two ImageSpecs with different instance ids and the same
\* architecture, namespace and tag have different names.
C8_DistinctIdsDistinctNames ==
  (inames # None /\ ipeer # None /\ ispec[1].instance_id # ipeer[1].instance_id)
    => inames[1][1] # inames[1][2]

\* What ImageSpec.name does guarantee: two ImageSpecs with the same
\* architecture, namespace and tag and different instance ids have different
\* names provided neither id holds an uppercase character or the marker
\* _1776_.
LowerMarkerFreeIdsDistinctNames ==
  (/\ inames # None /\ ipeer # None
   /\ ispec[1].instance_id # ipeer[1].instance_id
   /\ ~HasUpper(ispec[1].instance_id) /\ ~HasUpper(ipeer[1].instance_id)
   /\ ~Contains(ispec[1].instance_id, Marker)
   /\ ~Contains(ipeer[1].instance_id, Marker))
    => inames[1][1] # inames[1][2]

\* The names of two remote specs were read whose lower-case, marker-free
\* ids differ only in the number of underscores.
UnderscoreIdsDistinctNames ==
  /\ inames # None /\ ipeer # None
  /\ ispec[1].namespace # None
  /\ ispec[1].instance_id = <<"a", "_", "_">>
  /\ ipeer[1].instance_id = <<"a", "_">>
  /\ inames[1][1] # inames[1][2]

C10_PlatformNeverFails ==
  iplatform # "" =>
    /\ ispec # None
    /\ iplatform # "ValueError"
    /\ (ispec[1].arch = "amd64" => iplatform = "linux/amd64")
    /\ (ispec[1].arch = "arm64" => iplatform = "linux/arm64/v8")
    /\ ispec[1].arch \in {"amd64", "arm64"}

\* C10 witness: platform was read on an accepted arm64 spec.
C10_Witness == iplatform = "linux/arm64/v8" /\ ispec # None

\* ------------------------------------------- claims on the dispatcher

\* the payloads of a list, as a set
Range(q) == {q[i] : i \in DOMAIN q}

\* C1: when run_threadpool (pooled or sequential) returns, func was invoked
\* exactly once for every payload, the failed list holds exactly the raising
\* payloads and the succeeded list exactly the others, each payload once.
C1_FailureIsolation ==
  rt_pc = "returned" =>
    /\ \A i \in DOMAIN payloads : calls[i] = 1
    /\ Range(failed) = {payloads[i] : i \in raises}
    /\ Range(succeeded) = {payloads[i] : i \in DOMAIN payloads \ raises}
    /\ Len(succeeded) + Len(failed) = Len(payloads)

\* C1 witness: a pooled run of three payloads, the second of which raised,
\* has returned.
C1_Witness ==
  /\ rt_pc = "returned"
  /\ max_workers = 2
  /\ Len(payloads) = 3
  /\ raises = {2}
  /\ failed = <<2>>
  /\ Len(succeeded) = 2

\* ------------------------------------- claims on the batch build (main)

\* C2: after a run with force_rebuild=False in which every dispatched build
\* succeeded and left its image in the engine under its spec's name, a run
\* of the same batch with force_rebuild=False filters out every spec and
\* dispatches no build.
C2_BuildIdempotence ==
  (/\ pm_prev # None
   /\ ~pm_prev[1].force_rebuild
   /\ pm_prev[1].all_succeeded
   /\ pm_prev[1].present
   /\ ~pm_args[1].force_rebuild
   /\ pm_existing # None)
    => /\ pm_to_build = <<>>
       /\ pm_done = {}
       /\ pm_pc = "exited"

\* C2 witness: a first run without force dispatched builds, all succeeded
\* and left their images, and the second run without force found nothing
\* to build.
C2_Witness ==
  /\ pm_prev # None
  /\ ~pm_prev[1].force_rebuild
  /\ pm_prev[1].dispatched
  /\ pm_prev[1].all_succeeded
  /\ pm_prev[1].present
  /\ ~pm_args[1].force_rebuild
  /\ Len(pm_specs) = 2
  /\ pm_to_build = <<>>
  /\ pm_exit = Some([ret |-> "0"])

\* C3: filter_image_specs returns, in input order, every spec when
\* force_rebuild is set and otherwise exactly the specs whose name is not
\* among the images list_images reported; no spec whose name was reported
\* is built unless force_rebuild is set.
C3_FilterImageSpecs ==
  pm_existing # None =>
    LET force == pm_args[1].force_rebuild
        kept == {i \in 1..Len(pm_specs) :
                   force \/ ImageSpec_name(pm_specs[i]) \notin pm_existing[1]}
    IN  /\ force => pm_to_build = pm_specs
        /\ Len(pm_to_build) = Cardinality(kept)
        /\ \E f \in [1..Len(pm_to_build) -> kept] :
             /\ \A i, j \in 1..Len(pm_to_build) : i < j => f[i] < f[j]
             /\ \A i \in 1..Len(pm_to_build) : pm_to_build[i] = pm_specs[f[i]]
        /\ \A i \in pm_done :
             force \/ ImageSpec_name(pm_to_build[i]) \notin pm_existing[1]

\* C3 witness: without force, of two specs the one whose image existed was
\* filtered out and the other one was built.
C3_Witness ==
  /\ pm_existing # None
  /\ ~pm_args[1].force_rebuild
  /\ Len(pm_specs) = 2
  /\ ImageSpec_name(pm_specs[1]) \in pm_existing[1]
  /\ pm_to_build = <<pm_specs[2]>>
  /\ pm_successful = <<pm_specs[2]>>

\* ------------------------------------------ claims on the test-spec builder

\* C4: for a TestSpec whose script lines were parsed from a script text,
\* parsing the materialised eval_script again yields the TestSpec's
\* eval_script_list, which is the list parsed from the text.
C4_EvalScriptRoundTrip ==
  (ts_source # None /\ ts_reparsed # None) =>
    /\ ts_reparsed[1] = test_spec[1].eval_script_list
    /\ ts_reparsed[1] = parse_eval_script(ts_source[1])

\* every key make_test_spec reads is present with a value other than None
AllPresentNonNull(instance) ==
  /\ DOMAIN instance = InstanceKeys
  /\ \A k \in InstanceKeys : instance[k] # NoneValue

\* C5: for every record with all required fields present and non-null,
\* make_test_spec returns a TestSpec that carries the record's log_parser
\* and eval_type beside instance id, image, script lines, repo and version.
C5_MakeTestSpecReturns ==
  (ts_result # None /\ AllPresentNonNull(ts_instance[1])) =>
    /\ ts_result[1].ok
    /\ test_spec # None
    /\ test_spec[1].log_parser = ts_instance[1]["log_parser"]
    /\ test_spec[1].eval_type = ts_instance[1]["eval_type"]
    /\ test_spec[1].instance_id = ts_instance[1]["instance_id"]
    /\ test_spec[1].image = ts_instance[1]["image"]
    /\ test_spec[1].repo = ts_instance[1]["repo"]
    /\ test_spec[1].version = ts_instance[1]["version"]

\* the decoded content of a test-name field: json.loads of a string, the
\* value itself otherwise
Decoded(field) == IF IsStr(field) THEN json_loads(field.str).val ELSE field

Decodable(field) == IsStr(field) => json_loads(field.str).ok

\* C6: for every valid record, FAIL_TO_PASS and PASS_TO_PASS of the TestSpec
\* built from it equal the decoded JSON content of the record's fields,
\* whether a field arrived as a JSON string or as a list.
C6_TestNamesDecoded ==
  (/\ ts_result # None
   /\ AllPresentNonNull(ts_instance[1])
   /\ Decodable(ts_instance[1]["FAIL_TO_PASS"])
   /\ Decodable(ts_instance[1]["PASS_TO_PASS"])) =>
    /\ ts_result[1].ok
    /\ test_spec # None
    /\ test_spec[1].FAIL_TO_PASS = Decoded(ts_instance[1]["FAIL_TO_PASS"])
    /\ test_spec[1].PASS_TO_PASS = Decoded(ts_instance[1]["PASS_TO_PASS"])

\* --------------------------------------- claims on the dataset builder

\* C11: validate_no_missing accepts a record exactly when every required
\* field is a key with a value other than None; otherwise it raises at the
\* first offending field it visits a ValueError that names the dataset
\* label, the record's instance_id ('???' when that key is absent) and the
\* field; the record is the same after the call.
C11_ValidateNoMissing ==
  vd_result # None =>
    LET c == vd_call[1]
        r == vd_result[1]
        offends(f) == f \notin DOMAIN c.example \/ c.example[f] = NoneValue
        offending == {i \in DOMAIN c.order : offends(c.order[i])}
    IN  /\ (r = NoError) <=> (offending = {})
        /\ r # NoError =>
             /\ r.type = "ValueError"
             /\ r.label = c.dataset_label
             /\ r.field = c.order[Min(offending)]
             /\ r.what = IF r.field \in DOMAIN c.example
                         THEN "is None" ELSE "missing field"
             /\ r.instance = IF "instance_id" \in DOMAIN c.example
                             THEN c.example["instance_id"] ELSE Placeholder
        /\ vd_example = Some(c.example)

\* C11 witness: a record without instance_id and with a null hints_text was
\* refused at hints_text, and the error shows the placeholder.
C11_Witness ==
  /\ vd_result # None
  /\ vd_result[1] # NoError
  /\ "instance_id" \notin DOMAIN vd_call[1].example
  /\ vd_result[1].field = "hints_text"
  /\ vd_result[1].what = "is None"
  /\ vd_result[1].instance = Placeholder

\* process_dataset was ended by the ValueError of validate_no_missing
ValidationFailed ==
  /\ pd_exit # None
  /\ pd_exit[1] # NoError
  /\ pd_exit[1].what \in {"missing field", "is None"}

\* C12: when a record fails validation during process_dataset, only that
\* record is aborted: process_dataset is not ended by the error, and once it
\* has ended every record of the batch was visited and every split saved.
C12_ValidationAbortsOnlyRecord ==
  ValidationFailed =>
    /\ pd_pc # "raised"
    /\ pd_pc = "done" =>
         /\ \A sp \in DOMAIN pd_ds : \A i \in DOMAIN pd_ds[sp].rows :
              <<sp, i>> \in pd_visited
         /\ pd_saved = DOMAIN pd_ds

\* C13: prepare_images run as a script ends with a non-zero exit status
\* when the failed list of the build is non-empty, and with zero when every
\* build succeeded or nothing had to be built.
C13_ExitStatusReflectsFailures ==
  (pm_pc = "exited" /\ "ret" \in DOMAIN pm_exit[1]) =>
    (script_exit_status(pm_exit[1]) # 0 <=> pm_failed # <<>>)

\* ------------------------------------------- claims on the grading engine

\* C14: the verdict is RESOLVED exactly when every name of fail_to_pass and
\* of pass_to_pass is mapped to PASSED in the parsed log (a name the log
\* does not hold counts as not passed, an empty pass_to_pass is satisfied),
\* and the report carries exactly the names of each list that were not
\* PASSED.
C14_GradingVerdict ==
  gr_report # None =>
    LET parsed == gr_call[1].parsed
        spec == gr_call[1].spec
        passed(n) == n \in DOMAIN parsed /\ parsed[n] = "PASSED"
        r == gr_report[1]
    IN  /\ r.verdict \in {"RESOLVED", "UNRESOLVED"}
        /\ r.verdict = "RESOLVED" <=>
             /\ \A n \in Range(spec.FAIL_TO_PASS) : passed(n)
             /\ \A n \in Range(spec.PASS_TO_PASS) : passed(n)
        /\ Range(r.fail_to_pass) = {n \in Range(spec.FAIL_TO_PASS) : ~passed(n)}
        /\ Range(r.pass_to_pass) = {n \in Range(spec.PASS_TO_PASS) : ~passed(n)}

\* C14 witness: with pass_to_pass empty and test_a absent from a log that
\* holds test_b as PASSED, the verdict is UNRESOLVED and names test_a.
C14_Witness ==
  /\ gr_report # None
  /\ gr_call[1].spec.FAIL_TO_PASS = <<"test_a">>
  /\ gr_call[1].spec.PASS_TO_PASS = <<>>
  /\ gr_call[1].parsed = [n \in {"test_b"} |-> "PASSED"]
  /\ gr_report[1].verdict = "UNRESOLVED"
  /\ gr_report[1].fail_to_pass = <<"test_a">>

\* --------------------------------- claims on the dispatcher's scheduling

\* C15: with a non-positive worker count the units run strictly one after
\* the other in submission order: at most one unit is executing, a unit has
\* started only if every unit before it has finished, the units finish in
\* submission order, and no unit is handed to an executor.
C15_SequentialDegrade ==
  (rt_pc # "idle" /\ max_workers <= 0) =>
    /\ Cardinality(Running) <= 1
    /\ \A i, j \in DOMAIN fstate :
         (i < j /\ fstate[j] # "none") => fstate[i] = "done"
    /\ completion = [k \in 1..Len(completion) |-> k]
    /\ submitted = 0

\* C15 witness: with max_workers = -1 the third of three units is executing
\* after the first raised and the second returned.
C15_Witness ==
  /\ max_workers = 0 - 1
  /\ Len(payloads) = 3
  /\ raises = {1}
  /\ completion = <<1, 2>>
  /\ fstate[3] = "running"
  /\ failed = <<1>> /\ succeeded = <<2>>

\* a step of a worker thread of the pool: a call of func starts or ends
WorkerStep ==
  /\ max_workers > 0
  /\ \E i \in DOMAIN fstate : fstate'[i] # fstate[i] /\ fstate[i] # "none"

\* C16: with a positive worker count at most max_workers units execute at
\* the same time, and no step of a worker changes the succeeded or failed
\* list, the progress bar or the payloads.
C16_WorkerBound ==
  /\ [](max_workers > 0 => Cardinality(Running) <= max_workers)
  /\ [][WorkerStep => UNCHANGED <<succeeded, failed, pbar, payloads>>]_vars

\* C16 witness: with two workers and three units, two units are executing
\* and the third waits in the executor's queue.
C16_Witness ==
  /\ max_workers = 2
  /\ Cardinality(Running) = 2
  /\ \E i \in DOMAIN fstate : fstate[i] = "pending"

\* the number of units recorded as complete
Recorded == Len(succeeded) + Len(failed)

\* C17: in both modes the progress bar shows the counts of the two lists,
\* the shown counts sum to the number of units recorded so far, every
\* recording of a unit updates the bar, the counts never decrease, and they
\* reach the batch size only when every unit has ended.
C17_IncrementalProgress ==
  /\ [](/\ pbar.desc = <<Len(succeeded), Len(failed)>>
        /\ pbar.desc[1] + pbar.desc[2] = Recorded
        /\ pbar.n = Recorded
        /\ pbar.n <= pbar.total
        /\ (rt_pc # "idle" /\ pbar.n = pbar.total) =>
             \A i \in DOMAIN fstate : fstate[i] = "done")
  /\ [][/\ pbar'.desc[1] >= pbar.desc[1]
        /\ pbar'.desc[2] >= pbar.desc[2]
        /\ Recorded' # Recorded =>
             (Recorded' = Recorded + 1 /\ pbar'.n = pbar.n + 1)]_vars

\* C17 witness: in pooled mode two of three units are recorded, one as
\* succeeded and one as failed, and the bar shows 1 and 1 after two updates.
C17_Witness ==
  /\ max_workers > 0
  /\ pbar = [total |-> 3, n |-> 2, desc |-> <<1, 1>>]
  /\ rt_pc = "loop"

\* the position of payload x in the list q
PosIn(q, x) == CHOOSE k \in DOMAIN q : q[k] = x

\* units i and j are in the same result list, i before j
ListedBefore(i, j) ==
  \/ /\ i \in Range(succeeded) /\ j \in Range(succeeded)
     /\ PosIn(succeeded, i) < PosIn(succeeded, j)
  \/ /\ i \in Range(failed) /\ j \in Range(failed)
     /\ PosIn(failed, i) < PosIn(failed, j)

\* units i and j are in the same result list
SameList(i, j) ==
  \/ i \in Range(succeeded) /\ j \in Range(succeeded)
  \/ i \in Range(failed) /\ j \in Range(failed)

\* unit i ended before unit j
CompletedBefore(i, j) ==
  /\ i \in Range(completion) /\ j \in Range(completion)
  /\ PosIn(completion, i) < PosIn(completion, j)

\* C18 as stated: in pooled mode a unit that completes before another unit
\* of the same outcome is before it in the list.
C18_CompletionOrder ==
  max_workers > 0 =>
    \A i, j \in DOMAIN payloads :
      (CompletedBefore(i, j) /\ SameList(i, j)) => ListedBefore(i, j)

\* C18 amended: in pooled mode a unit that completes before another unit of
\* the same outcome is before it in the list, provided the later unit had
\* not yet ended when as_completed began; the units that had ended by then
\* come first, in no fixed order among themselves.
C18_CompletionOrderAfterStart ==
  max_workers > 0 =>
    /\ \A i, j \in DOMAIN payloads :
         (CompletedBefore(i, j) /\ SameList(i, j) /\ j \notin ac_finished)
           => ListedBefore(i, j)
    /\ \A i, j \in DOMAIN payloads :
         (i \in ac_finished /\ j \notin ac_finished /\ SameList(i, j))
           => ListedBefore(i, j)

\* C18 witness: the second unit submitted ended first, the first one ended
\* after as_completed began, and the succeeded list holds them as they ended.
C18_Witness ==
  /\ rt_pc = "returned"
  /\ max_workers > 0
  /\ completion = <<2, 1>>
  /\ succeeded = <<2, 1>>
  /\ 1 \notin ac_finished

\* --------------------------------- claims on TestSpec and the script lines

\* C19: reading the eval_script of a TestSpec leaves every field of the
\* TestSpec, the script line list included, as it was.
C19_TestSpecReadOnly ==
  [][(test_spec # None /\ ts_script' # ts_script) => test_spec' = test_spec]_vars

\* the lines of a script text: the pieces between line feeds, a final line
\* feed ending the last line
ScriptLines(text) ==
  IF text = <<>> THEN <<>>
  ELSE IF text[Len(text)] = LF THEN str_split(SubSeq(text, 1, Len(text) - 1))
  ELSE str_split(text)

\* C20: parse_eval_script returns the lines of the script that differ from
\* the shebang and from the strict-mode directive, each as it is and in the
\* original order, and drops nothing else.
C20_DropsExactlyPreamble ==
  (ts_source # None /\ test_spec # None /\ ts_script = None) =>
    LET kept == SelectSeq(ScriptLines(ts_source[1]),
                          LAMBDA line : ~IsPreamble(line))
    IN  test_spec[1].eval_script_list = [i \in 1..Len(kept) |-> Str(kept[i])]

\* ------------------------------------- claims on the inference runner

IsPrefix(s, t) == Len(s) =< Len(t) /\ SubSeq(t, 1, Len(s)) = s

\* The step in which process s sends a request: call_api is entered.
SendsRequest(s) ==
  inf_proc[s].pc # "calling" /\ inf_proc'[s].pc = "calling"

\* The instance the loop of process s is at.
CurrentInstance(p) == p.test_dataset[p.pos + 1]

\* C21: over any sequence of runs on the same output file, each stopped at
\* any point, no instance has two lines in the file, a request goes out
\* only for an instance that has no line in the file, and the lines the
\* file holds stay as they are, new lines being added at its end.
C21_ResumableInference ==
  /\ [](\A s \in DOMAIN inf_files : \A j, k \in DOMAIN inf_files[s] :
          inf_files[s][j] = inf_files[s][k] => j = k)
  /\ [][\A s \in DOMAIN inf_files :
          /\ IsPrefix(inf_files[s], inf_files'[s])
          /\ SendsRequest(s) =>
               CurrentInstance(inf_proc'[s]) \notin Range(inf_files[s])]_vars

\* A restarted process, whose file already has a line, sends a request.
C21_Witness ==
  \E s \in DOMAIN inf_proc :
    /\ inf_proc[s].starts = 2
    /\ inf_proc[s].pc = "calling"
    /\ inf_proc[s].existing_ids # {}
    /\ inf_files[s] # <<>>

\* The step in which a call of process s ends without a response text.
CallFailed(s) ==
  /\ inf_proc[s].pc = "calling"
  /\ inf_proc'[s].pc = "loop"
  /\ inf_proc'[s].last \in {"None", "exception"}

\* C25: a call that fails (an exception after the last attempt, or None
\* for an API error code) writes no line and the loop goes on to the next
\* instance; a run that reaches its end has attempted every instance of
\* its dataset; every line of an output file is of an instance whose call
\* gave a response text (error_code 0).
C25_PerInstanceIsolation ==
  /\ [](\A s \in DOMAIN inf_files :
          /\ \A k \in DOMAIN inf_files[s] : <<s, inf_files[s][k]>> \in inf_ok
          /\ inf_proc[s].pc = "done" =>
               \A k \in DOMAIN inf_proc[s].test_dataset :
                 inf_proc[s].test_dataset[k] \in inf_proc[s].tried)
  /\ [][\A s \in DOMAIN inf_files :
          CallFailed(s) =>
            /\ inf_files' = inf_files
            /\ inf_proc'[s].pos = inf_proc[s].pos + 1]_vars

\* A run came to its end although the call for its first instance failed:
\* that instance has no line, a later one has.
C25_Witness ==
  \E s \in DOMAIN inf_proc :
    /\ inf_proc[s].pc = "done"
    /\ inf_proc[s].starts = 1
    /\ Len(inf_proc[s].test_dataset) >= 2
    /\ inf_proc[s].test_dataset[1] \notin Range(inf_files[s])
    /\ inf_proc[s].test_dataset[2] \in Range(inf_files[s])

\* C27: with every shard writing its own output file, whatever the stops
\* and restarts, no instance is sent to the API by two different shards.
C27_ShardStability ==
  \A a \in inf_sent, b \in inf_sent : a[2] = b[2] => a[1] = b[1]

\* The step that makes a POST attempt, and how that attempt ended.
LastAttempt == api_attempts'[Len(api_attempts')]

\* What the retry decorator does after one attempt: an attempt that raised
\* is followed by a wait and another attempt when fewer than max_retries
\* attempts were made; a response whose error_code is not 0 or absent ends
\* the call with None.
RetryRule ==
  Len(api_attempts') > Len(api_attempts) =>
    /\ Len(api_attempts') = Len(api_attempts) + 1
    /\ (AttemptRaises(LastAttempt) /\ Len(api_attempts') < api_max_retries[1])
         => api_pc' = "sleep" /\ api_result' = None
    /\ LastAttempt \in {"error_code", "absent"}
         => api_pc' = "ended" /\ api_result' = Some([ret |-> "None"])

\* Once the call has ended no further attempt is made.
EndedIsFinal ==
  api_pc = "ended" => api_attempts' = api_attempts /\ api_pc' = "ended"

\* C24: for one instance the caller built by _make_call_custom_api(retries)
\* makes at most retries POST attempts; an attempt that raises is followed
\* by another while attempts remain; a response with error_code not 0 or
\* absent ends the call at once with None and is not retried.
C24_RetryBound ==
  /\ [](api_max_retries # None => Len(api_attempts) =< api_max_retries[1])
  /\ [][RetryRule /\ EndedIsFinal]_vars

Max(a, b) == IF a >= b THEN a ELSE b

\* C24, for every int of --retries: the caller makes at most
\* max(1, retries) POST attempts, the first attempt being made whatever
\* retries is; the rest as stated.
C24_RetryBoundAtLeastOne ==
  /\ [](api_max_retries # None =>
          Len(api_attempts) =< Max(1, api_max_retries[1]))
  /\ [][RetryRule /\ EndedIsFinal]_vars

\* With retries 3 the third attempt raised too and the call ended with
\* RetryError.
C24_Witness ==
  /\ api_max_retries = Some(3)
  /\ Len(api_attempts) = 3
  /\ api_result = Some([exc |-> "RetryError"])

\* ---------------------------------------------- claims on the log parsers

\* The positions of the status lines of a log that name a test.
StatusLinesOf(log, test) ==
  {k \in DOMAIN log : IsStatusLine(log[k]) /\ log[k][2] = test}

Greatest(S) == CHOOSE x \in S : \A y \in S : y =< x

\* C22: for every log, the mapping of the per-line status strategy has one
\* entry for each test identifier that a status line names and no other,
\* and the entry holds the outcome of the last status line of that
\* identifier.
C22_LastWriteWins ==
  (lp_call # None /\ lp_call[1].strategy = "per_line") =>
    LET log == lp_call[1].log
        mapping == lp_result[1]
    IN  /\ DOMAIN mapping = {t \in TestNames : StatusLinesOf(log, t) # {}}
        /\ \A t \in DOMAIN mapping :
             mapping[t] = StatusTokens[log[Greatest(StatusLinesOf(log, t))][1]]

\* PASSED test_a, then FAILED test_a: the mapping says FAILED.
C22_Witness ==
  /\ lp_call # None
  /\ lp_call[1].strategy = "per_line"
  /\ \E j, k \in DOMAIN lp_call[1].log :
       /\ j < k
       /\ lp_call[1].log[j] = <<"PASSED", "test_a">>
       /\ lp_call[1].log[k] = <<"FAILED", "test_a">>
       /\ StatusLinesOf(lp_call[1].log, "test_a") = {j, k}
  /\ lp_result = Some([t \in {"test_a"} |-> "FAILED"])

\* The kinds a failure block reports for a test.
KindsOf(block, test) ==
  {block[k][1] : k \in {i \in DOMAIN block : block[i][2] = test}}

\* C23: for every expected set and every failure block, the keys of the
\* mapping of the aggregate-failure strategy are the expected names; an
\* expected name the block lists has a kind the block reports for it,
\* FAILED or ERROR, and an expected name the block does not list is PASSED.
C23_AggregateFailure ==
  (lp_call # None /\ lp_call[1].strategy = "aggregate") =>
    LET block == lp_call[1].block
        expected == lp_call[1].expected
        mapping == lp_result[1]
    IN  /\ DOMAIN mapping = expected
        /\ \A t \in expected :
             /\ KindsOf(block, t) # {} => mapping[t] \in KindsOf(block, t)
             /\ KindsOf(block, t) = {} => mapping[t] = "PASSED"

\* Expected a, b, c and a block that lists a alone, as FAILED.
C23_Witness ==
  /\ lp_call # None
  /\ lp_call[1].strategy = "aggregate"
  /\ lp_call[1].expected = ExpectedNames
  /\ lp_call[1].block = <<<<"FAILED", "test_a">>>>
  /\ lp_result = Some([t \in ExpectedNames |->
                         IF t = "test_a" THEN "FAILED" ELSE "PASSED"])

\* ------------------------------- claims on the batch build's image listing

\* The run got as far as deciding what to build.
RunDecided ==
  \/ pm_pc = "building"
  \/ pm_pc = "exited" /\ "ret" \in DOMAIN pm_exit[1]

\* C26: in one run of main the engine's images are listed once and never
\* twice, the listing is there when the first build is dispatched, the
\* build set is filter_image_specs of that listing, and while builds are
\* in flight neither the listing nor the build set changes, whatever
\* happens to the engine's images.
C26_ReadThenDispatch ==
  /\ [](/\ pm_lists =< 1
        /\ RunDecided =>
             /\ pm_lists = 1
             /\ pm_existing # None
             /\ pm_to_build = filter_image_specs(pm_specs, pm_existing[1],
                                                 pm_args[1].force_rebuild))
  /\ [][pm_pc = "building" =>
          /\ pm_lists' = pm_lists
          /\ pm_existing' = pm_existing
          /\ pm_to_build' = pm_to_build]_vars

\* A build has ended and the engine no longer holds what the listing
\* said: a second listing would give another build set.
C26_Witness ==
  /\ pm_pc = "building"
  /\ pm_done # {}
  /\ pm_lists = 1
  /\ list_images(engine_images) # pm_existing[1]
  /\ filter_image_specs(pm_specs, list_images(engine_images),
                        pm_args[1].force_rebuild) # pm_to_build

\* ------------------------------- claims on the dispatcher's termination

\* C28: when every call of func ends, a call of run_threadpool returns in
\* the end, for every worker count and every batch, the empty one too,
\* and when it has returned every unit it submitted has completed.
C28_Termination ==
  /\ (rt_pc # "idle") ~> (rt_pc = "returned")
  /\ [](rt_pc = "returned" =>
          /\ \A i \in DOMAIN fstate : fstate[i] = "done"
          /\ Len(succeeded) + Len(failed) = Len(payloads))

\* run_threadpool has returned from a pool of threads that had a batch in
\* which a unit raised.
C28_Witness ==
  /\ rt_pc = "returned"
  /\ max_workers >= 1
  /\ Len(payloads) >= 2
  /\ raises # {}
  /\ \A i \in DOMAIN fstate : fstate[i] = "done"

\* ------------------------------------- claims on the parser registry

\* C29: a record that dataset building annotates gets a log_parser that
\* is a key of PARSER_REGISTRY and an eval_type that is fail_only exactly
\* when its repo is in the fail-only set of the dataset and pass_and_fail
\* otherwise; a record whose repo is not in the parser map of the dataset
\* ends add_metadata with an error and gets no parser key.
C29_RegistryCoverage ==
  an_call # None =>
    LET c == ProcessDatasetCalls[an_call[1].call]
        repo == an_call[1].repo
        record == an_result[1]
    IN  IF repo \in DOMAIN c.parser_map
        THEN /\ DOMAIN record = {"log_parser", "eval_type"}
             /\ record.log_parser \in PARSER_REGISTRY
             /\ record.eval_type \in {"fail_only", "pass_and_fail"}
             /\ record.eval_type = "fail_only" <=> repo \in c.fail_only_repos
        ELSE record = [exc |-> "ValueError"]

\* A Chart.js record of SWE-bench_Multimodal: parse_log_chart_js, fail_only.
C29_Witness ==
  /\ an_call = Some([call |-> 4, repo |-> "chartjs/Chart.js"])
  /\ an_result = Some([log_parser |-> "parse_log_chart_js",
                       eval_type |-> "fail_only"])

\* ------------------------------------- claims on the image reference

\* C30: for every instance identifier, the image reference that dataset
\* building records on the instance is the name under which the build
\* orchestrator builds and looks up the image of that instance, given the
\* namespace of the recorded references, the default architecture and the
\* tag latest.
C30_ImageReferenceConsistency ==
  ref_built # None => ref_built = ref_recorded

====
